---- MODULE Spec2Model ----
(***************************************************************************)
(* GitHub-to-Towns notification bridge: the message delivery service       *)
(* (src/services/message-delivery-service.ts), the thread service and the  *)
(* webhook event processor (src/github-app/event-processor.ts).            *)
(*                                                                         *)
(* Time is counted in days.  Optional values of the code (undefined, null) *)
(* are Absent; real message ids, numbers and timestamps start at 1.        *)
(***************************************************************************)
EXTENDS Integers, Sequences, FiniteSets, TLC

VARIABLES
    now,              \* the wall clock read by new Date()
    messageMappings,  \* rows of the message_mappings table
    chat,             \* the Towns messages, by event id (1..Len(chat))
    calls,            \* the deliver() calls in flight, one slot per caller
    delivered,        \* the number of deliver() calls made so far
    eventThreads,     \* rows of the event_threads table
    router,           \* the processEvent() call of the event processor
    swept,            \* what the last cleanupExpired() run deleted, and when
    matching,         \* a call of matchesBranchFilter: arguments and result
    storage,          \* SubscriptionStorage: channelToRepos, repoToChannels
    command,          \* the last /github command handled, and its reply
    webhook,          \* a call of a webhook handler: payload and arguments passed
    clock,            \* Date.now() as the OAuth service reads it, in minutes
    oauth,            \* GitHubOAuthService: tables, refreshPromises, promises
    oauthCalls,       \* the OAuth service calls in flight, one slot per caller
    polling,          \* PollingService: fields, polling state table, the cycle
    feed              \* GitHub's event feed of the polled repository, by id

vars ==
    <<now, messageMappings, chat, calls, delivered, eventThreads, router, swept,
      matching, storage, command, webhook, clock, oauth, oauthCalls, polling,
      feed>>

subscriptionVars == <<storage, command>>

serviceVars == <<clock, oauth, oauthCalls, polling, feed>>

routerVars == <<eventThreads, router>>

deliveryVars == <<messageMappings, calls, delivered>>

---------------------------------------------------------------------------
(* Bounds of the model *)

MaxCalls == 2       \* deliver() calls
MaxTicks == 3       \* clock ticks
MaxTs == 2          \* GitHub updated_at values 1..MaxTs
MaxEvents == 1      \* webhook events routed

(* Program constants *)

MESSAGE_MAPPING_EXPIRY_DAYS == 30
DEFAULT_EXPIRY_DAYS == 30

Absent == 0

TickDays == MESSAGE_MAPPING_EXPIRY_DAYS \div 2

Procs == {"p1", "p2"}
Spaces == {"s1"}
Channels == {"c1", "c2"}
Repos == {"r1"}
Timestamps == 1..MaxTs

DeliveryAction == {"create", "edit", "delete"}

---------------------------------------------------------------------------
(* Entity contexts and delivery parameters *)

NoEntity ==
    [present |-> FALSE, githubEntityType |-> "none", githubEntityId |-> Absent,
     isAnchor |-> FALSE, parentType |-> "none", parentNumber |-> Absent,
     githubUpdatedAt |-> Absent]

\* The PR #1 itself: an anchor when opened (or edited: retroactive anchor)
PrEntity(ts) ==
    [present |-> TRUE, githubEntityType |-> "pr", githubEntityId |-> 1,
     isAnchor |-> TRUE, parentType |-> "none", parentNumber |-> Absent,
     githubUpdatedAt |-> ts]

\* Comment #2 on PR #1: a follower
CommentEntity(ts) ==
    [present |-> TRUE, githubEntityType |-> "comment", githubEntityId |-> 2,
     isAnchor |-> FALSE, parentType |-> "pr", parentNumber |-> 1,
     githubUpdatedAt |-> ts]

EntityContexts ==
    {NoEntity}
    \cup {PrEntity(ts) : ts \in Timestamps \cup {Absent}}
    \cup {CommentEntity(ts) : ts \in Timestamps \cup {Absent}}

\* The deliveries tried: everything in channel c1, and the PR in channel c2
DeliveryParams ==
    [spaceId : Spaces, channelId : {"c1"}, repoFullName : Repos,
     action : DeliveryAction, entityContext : EntityContexts,
     emits : BOOLEAN]
    \cup [spaceId : Spaces, channelId : {"c2"}, repoFullName : Repos,
          action : DeliveryAction,
          entityContext : {PrEntity(ts) : ts \in Timestamps},
          emits : {TRUE}]

\* formatter(isThreadReply): the rendered payload (its updated_at stands for
\* the text), compact when it is a thread reply; "" when the action shows nothing
NoMessage == [empty |-> TRUE, body |-> Absent, reply |-> FALSE]

formatter(params, isThreadReply) ==
    IF params.emits
    THEN [empty |-> FALSE, body |-> params.entityContext.githubUpdatedAt,
          reply |-> isThreadReply]
    ELSE NoMessage

---------------------------------------------------------------------------
(* The message_mappings table *)

SameKey(r, spaceId, channelId, repoFullName, entityType, entityId) ==
    /\ r.spaceId = spaceId
    /\ r.channelId = channelId
    /\ r.repoFullName = repoFullName
    /\ r.githubEntityType = entityType
    /\ r.githubEntityId = entityId

\* getMessageId without its expiry condition
getMessageId_NoExpiry(rows, spaceId, channelId, repoFullName, entityType, entityId, t) ==
    LET results == {r \in rows :
                      SameKey(r, spaceId, channelId, repoFullName,
                              entityType, entityId)}
    IN  IF results = {} THEN Absent
        ELSE (CHOOSE r \in results : TRUE).townsMessageId

\* getMessageId without the space and channel conditions
getMessageId_AnyChannel(rows, spaceId, channelId, repoFullName, entityType, entityId, t) ==
    LET results == {r \in rows :
                      /\ r.repoFullName = repoFullName
                      /\ r.githubEntityType = entityType
                      /\ r.githubEntityId = entityId
                      /\ r.expiresAt > t}
    IN  IF results = {} THEN Absent
        ELSE (CHOOSE r \in results : TRUE).townsMessageId

\* getMessageId with its expiry comparison inverted
getMessageId_Inverted(rows, spaceId, channelId, repoFullName, entityType, entityId, t) ==
    LET results == {r \in rows :
                      /\ SameKey(r, spaceId, channelId, repoFullName,
                                 entityType, entityId)
                      /\ r.expiresAt <= t}
    IN  IF results = {} THEN Absent
        ELSE (CHOOSE r \in results : TRUE).townsMessageId

\* results[0]?.townsMessageId ?? null of the rows that are not expired
getMessageId(rows, spaceId, channelId, repoFullName, entityType, entityId, t) ==
    LET results == {r \in rows :
                      /\ SameKey(r, spaceId, channelId, repoFullName,
                                 entityType, entityId)
                      /\ r.expiresAt > t}
    IN  IF results = {} THEN Absent
        ELSE (CHOOSE r \in results : TRUE).townsMessageId

\* A column of the on-conflict set: a key whose value is undefined is left
\* out of the update, so the column keeps what is stored
SetColumn(stored, value) == IF value = Absent THEN stored ELSE value

\* storeMapping as a plain insert, without the conflict clause
storeMapping_InsertOnly(rows, spaceId, channelId, repoFullName, ec, townsMessageId, t) ==
    rows \cup {[spaceId |-> spaceId, channelId |-> channelId,
                repoFullName |-> repoFullName,
                githubEntityType |-> ec.githubEntityType,
                githubEntityId |-> ec.githubEntityId,
                parentType |-> ec.parentType,
                parentNumber |-> ec.parentNumber,
                townsMessageId |-> townsMessageId,
                githubUpdatedAt |-> ec.githubUpdatedAt,
                createdAt |-> t,
                expiresAt |-> t + MESSAGE_MAPPING_EXPIRY_DAYS]}

\* storeMapping whose conflict clause leaves github_updated_at as it was
storeMapping_KeepTimestamp(rows, spaceId, channelId, repoFullName, ec, townsMessageId, t) ==
    LET conflict == {r \in rows :
                       SameKey(r, spaceId, channelId, repoFullName,
                               ec.githubEntityType, ec.githubEntityId)}
    IN  IF conflict = {}
        THEN storeMapping_InsertOnly(rows, spaceId, channelId, repoFullName,
                                     ec, townsMessageId, t)
        ELSE (rows \ conflict)
             \cup {[r EXCEPT !.townsMessageId = townsMessageId,
                             !.expiresAt = t + MESSAGE_MAPPING_EXPIRY_DAYS]
                     : r \in conflict}

\* storeMapping whose conflict clause leaves expires_at as it was
storeMapping_KeepExpiry(rows, spaceId, channelId, repoFullName, ec, townsMessageId, t) ==
    LET conflict == {r \in rows :
                       SameKey(r, spaceId, channelId, repoFullName,
                               ec.githubEntityType, ec.githubEntityId)}
    IN  IF conflict = {}
        THEN storeMapping_InsertOnly(rows, spaceId, channelId, repoFullName,
                                     ec, townsMessageId, t)
        ELSE (rows \ conflict)
             \cup {[r EXCEPT !.townsMessageId = townsMessageId,
                             !.githubUpdatedAt = ec.githubUpdatedAt]
                     : r \in conflict}

\* insert ... on conflict (the five key columns) do update
storeMapping(rows, spaceId, channelId, repoFullName, ec, townsMessageId, t) ==
    LET expiresAt == t + MESSAGE_MAPPING_EXPIRY_DAYS
        conflict == {r \in rows :
                       SameKey(r, spaceId, channelId, repoFullName,
                               ec.githubEntityType, ec.githubEntityId)}
        inserted == [spaceId |-> spaceId, channelId |-> channelId,
                     repoFullName |-> repoFullName,
                     githubEntityType |-> ec.githubEntityType,
                     githubEntityId |-> ec.githubEntityId,
                     parentType |-> ec.parentType,
                     parentNumber |-> ec.parentNumber,
                     townsMessageId |-> townsMessageId,
                     githubUpdatedAt |-> ec.githubUpdatedAt,
                     createdAt |-> t, expiresAt |-> expiresAt]
    IN  IF conflict = {}
        THEN rows \cup {inserted}
        ELSE (rows \ conflict)
             \cup {[r EXCEPT !.townsMessageId = townsMessageId,
                             !.githubUpdatedAt = SetColumn(@, ec.githubUpdatedAt),
                             !.expiresAt = expiresAt] : r \in conflict}

\* shouldUpdate with >= for > (an equal timestamp passes)
shouldUpdate_NotOlder(rows, spaceId, channelId, repoFullName, entityType, entityId, newUpdatedAt) ==
    LET results == {r \in rows :
                      SameKey(r, spaceId, channelId, repoFullName,
                              entityType, entityId)}
        existing == IF results = {} THEN Absent
                    ELSE (CHOOSE r \in results : TRUE).githubUpdatedAt
    IN  IF existing = Absent THEN TRUE ELSE newUpdatedAt >= existing

\* shouldUpdate that lets every edit pass
shouldUpdate_Always(rows, spaceId, channelId, repoFullName, entityType, entityId, newUpdatedAt) == TRUE

\* newUpdatedAt > existing, or TRUE when nothing is stored
shouldUpdate(rows, spaceId, channelId, repoFullName, entityType, entityId, newUpdatedAt) ==
    LET results == {r \in rows :
                      SameKey(r, spaceId, channelId, repoFullName,
                              entityType, entityId)}
        existing == IF results = {} THEN Absent
                    ELSE (CHOOSE r \in results : TRUE).githubUpdatedAt
    IN  IF existing = Absent THEN TRUE ELSE newUpdatedAt > existing

\* deleteMapping that deletes nothing
deleteMapping_Noop(rows, spaceId, channelId, repoFullName, entityType, entityId) == rows

\* delete ... where the five key columns match
deleteMapping(rows, spaceId, channelId, repoFullName, entityType, entityId) ==
    {r \in rows :
       ~SameKey(r, spaceId, channelId, repoFullName, entityType, entityId)}

\* A cleanupExpired() run: the table, its new Date(), and results.length
Swept(table, at, count) == [table |-> table, at |-> at, count |-> count]

NeverSwept == Swept("none", 0, 0)

expiredRemoved_ByCreation(rows, t) == {r \in rows : ~(r.createdAt < t)}

\* delete ... where expires_at < now
expiredRemoved(rows, t) == {r \in rows : ~(r.expiresAt < t)}

---------------------------------------------------------------------------
(* deliver(): one slot per caller, one step per await *)

IdleCall ==
    [pc |-> "idle", params |-> [spaceId |-> "s1", channelId |-> "c1",
                                repoFullName |-> "r1", action |-> "create",
                                entityContext |-> NoEntity, emits |-> FALSE],
     threadId |-> Absent, message |-> NoMessage, existingMessageId |-> Absent,
     eventId |-> Absent, formatterArgs |-> <<>>, ops |-> <<>>,
     threw |-> FALSE, pre |-> {}]

NoneInFlight == \A q \in Procs : calls[q].pc = "idle"

InFlight == {q \in Procs : calls[q].pc \notin {"idle", "done"}}

\* A chat-boundary call as the boundary saw it
ChatOp(op, channelId, messageId, threadId, message, ok) ==
    [op |-> op, channelId |-> channelId, messageId |-> messageId,
     threadId |-> threadId, message |-> message, ok |-> ok]

Finish(p, c) == calls' = [calls EXCEPT ![p] = [c EXCEPT !.pc = "done"]]

Goto(p, c, pc) == calls' = [calls EXCEPT ![p] = [c EXCEPT !.pc = pc]]

\* deliver without its try/catch: the exception rejects the caller's await
Catch_Rethrow(p, c) ==
    calls' = [calls EXCEPT ![p] = [c EXCEPT !.threw = TRUE, !.pc = "rejected"]]

\* deliver, lines 132-134: an exception thrown inside the try is logged and
\* deliver returns
Catch(p, c) == Finish(p, [c EXCEPT !.threw = TRUE])

\* A chat-boundary call whose error is swallowed where it is made: deliver
\* goes on to the store call that follows it
ChatThrows_StoreAnyway(p, c) ==
    Goto(p, c, CASE c.pc = "send" -> "storeCreate"
                 [] c.pc = "edit" -> "storeEdit"
                 [] OTHER -> "deleteMapping")

\* A chat-boundary call that is made once more after it has thrown
ChatThrows_Retry(p, c) ==
    IF Len(c.ops) < 2 THEN Goto(p, c, c.pc) ELSE Catch(p, c)

\* bot.sendMessage, bot.editMessage or bot.removeEvent throws (lines 153,
\* 224, 252): nothing of its handler runs after it, deliver's catch logs
ChatThrows(p, c) == Catch(p, c)

\* Whether deliver looks up the parent anchor's message as the thread
NeedsThreadLookup(ec) ==
    /\ ec.present
    /\ ~ec.isAnchor
    /\ ec.parentType # "none"
    /\ ec.parentNumber # Absent

\* The switch with a create path that drops a follower without a thread
Dispatch_DropUnthreaded(action, ec, message, threadId) ==
    CASE action = "delete" -> IF ec.present THEN "deleteLookup" ELSE "done"
      [] action = "edit" ->
           IF ec.present /\ ~message.empty THEN "editLookup" ELSE "done"
      [] OTHER ->
           IF message.empty \/ (ec.present /\ ~ec.isAnchor /\ threadId = Absent)
           THEN "done" ELSE "send"

\* The switch without the checks of the formatter's result
Dispatch_SendEmpty(action, ec, message, threadId) ==
    CASE action = "delete" -> IF ec.present THEN "deleteLookup" ELSE "done"
      [] action = "edit" -> IF ec.present THEN "editLookup" ELSE "done"
      [] OTHER -> "send"

\* deliver, lines 81-131: the switch on the action, up to the next await
Dispatch(action, ec, message, threadId) ==
    CASE action = "delete" -> IF ec.present THEN "deleteLookup" ELSE "done"
      [] action = "edit" ->
           IF ec.present /\ ~message.empty THEN "editLookup" ELSE "done"
      [] OTHER -> IF message.empty THEN "done" ELSE "send"

\* The caller invokes deliver(params).  Lines 65-131: the thread lookup, the
\* formatter (not called on the delete path, nor on an edit without entity
\* context), and the switch up to its next await.
Begin(p, params) ==
    /\ calls[p].pc = "idle"
    /\ delivered < MaxCalls
    /\ delivered' = delivered + 1
    /\ LET c == [IdleCall EXCEPT !.params = params, !.pre = messageMappings]
           ec == params.entityContext
       IN  \E dbOk \in (IF NeedsThreadLookup(ec) THEN BOOLEAN ELSE {TRUE}) :
             IF ~dbOk
             THEN Catch(p, c)
             ELSE
               LET threadId ==
                     IF NeedsThreadLookup(ec)
                     THEN getMessageId(messageMappings, params.spaceId,
                                       params.channelId, params.repoFullName,
                                       ec.parentType, ec.parentNumber, now)
                     ELSE Absent
                   formats == \/ params.action = "create"
                              \/ params.action = "edit" /\ ec.present
                   message == IF formats
                              THEN formatter(params, threadId # Absent)
                              ELSE NoMessage
                   args == IF formats THEN <<threadId # Absent>> ELSE <<>>
               IN  Goto(p, [c EXCEPT !.threadId = threadId,
                                     !.message = message,
                                     !.formatterArgs = args],
                        Dispatch(params.action, ec, message, threadId))
    /\ UNCHANGED <<now, messageMappings, chat>>
    /\ UNCHANGED routerVars
    /\ UNCHANGED matching
    /\ UNCHANGED subscriptionVars
    /\ UNCHANGED serviceVars
    /\ UNCHANGED webhook
    /\ UNCHANGED swept

\* handleDelete, lines 143-150: look the entity's message up
DeleteLookup(p) ==
    /\ calls[p].pc = "deleteLookup"
    /\ LET c == calls[p]
           prm == c.params
           ec == prm.entityContext
       IN  \E dbOk \in BOOLEAN :
             IF ~dbOk
             THEN Catch(p, c)
             ELSE
               LET existingMessageId ==
                     getMessageId(messageMappings, prm.spaceId, prm.channelId,
                                  prm.repoFullName, ec.githubEntityType,
                                  ec.githubEntityId, now)
                   found == [c EXCEPT !.existingMessageId = existingMessageId]
               IN  IF existingMessageId # Absent
                   THEN Goto(p, found, "remove")
                   ELSE Finish(p, found)
    /\ UNCHANGED <<now, messageMappings, chat, delivered>>
    /\ UNCHANGED routerVars
    /\ UNCHANGED matching
    /\ UNCHANGED subscriptionVars
    /\ UNCHANGED serviceVars
    /\ UNCHANGED webhook
    /\ UNCHANGED swept

\* handleDelete, line 153: bot.removeEvent
Remove(p) ==
    /\ calls[p].pc = "remove"
    /\ LET c == calls[p]
           prm == c.params
           id == c.existingMessageId
       IN  \E ok \in BOOLEAN :
             LET op == ChatOp("remove", prm.channelId, id, Absent, NoMessage, ok)
                 called == [c EXCEPT !.ops = Append(c.ops, op)]
             IN  IF ok
                 THEN /\ chat' = [chat EXCEPT ![id].removed = TRUE]
                      /\ Goto(p, called, "deleteMapping")
                 ELSE /\ chat' = chat
                      /\ ChatThrows(p, called)
    /\ UNCHANGED <<now, messageMappings, delivered>>
    /\ UNCHANGED routerVars
    /\ UNCHANGED matching
    /\ UNCHANGED subscriptionVars
    /\ UNCHANGED serviceVars
    /\ UNCHANGED webhook
    /\ UNCHANGED swept

\* handleDelete, lines 154-160: deleteMapping
DeleteMapping(p) ==
    /\ calls[p].pc = "deleteMapping"
    /\ LET c == calls[p]
           prm == c.params
           ec == prm.entityContext
       IN  \E dbOk \in BOOLEAN :
             IF ~dbOk
             THEN /\ Catch(p, c)
                  /\ messageMappings' = messageMappings
             ELSE /\ Finish(p, c)
                  /\ messageMappings' =
                       deleteMapping(messageMappings, prm.spaceId,
                                     prm.channelId, prm.repoFullName,
                                     ec.githubEntityType, ec.githubEntityId)
    /\ UNCHANGED <<now, chat, delivered>>
    /\ UNCHANGED routerVars
    /\ UNCHANGED matching
    /\ UNCHANGED subscriptionVars
    /\ UNCHANGED serviceVars
    /\ UNCHANGED webhook
    /\ UNCHANGED swept

\* handleEdit that creates whatever it finds no message for
EditWithoutMapping_AlwaysCreate(ec) == "send"

\* handleEdit without the retroactive anchor
EditWithoutMapping_Skip(ec) == "done"

\* handleEdit, lines 183-204: no message to edit.  An anchor is created
\* retroactively, anything else is skipped.
EditWithoutMapping(ec) == IF ec.isAnchor THEN "send" ELSE "done"

\* handleEdit that asks shouldUpdate also without a timestamp
ChecksStaleness_Always(ec) == TRUE

\* handleEdit, line 207: if (githubUpdatedAt)
ChecksStaleness(ec) == ec.githubUpdatedAt # Absent

\* handleEdit, lines 174-222: look the entity's message up
EditLookup(p) ==
    /\ calls[p].pc = "editLookup"
    /\ LET c == calls[p]
           prm == c.params
           ec == prm.entityContext
       IN  \E dbOk \in BOOLEAN :
             IF ~dbOk
             THEN Catch(p, c)
             ELSE
               LET existingMessageId ==
                     getMessageId(messageMappings, prm.spaceId, prm.channelId,
                                  prm.repoFullName, ec.githubEntityType,
                                  ec.githubEntityId, now)
                   found == [c EXCEPT !.existingMessageId = existingMessageId]
               IN  IF existingMessageId = Absent
                   THEN \* handleCreate(..., undefined, message)
                        Goto(p, [found EXCEPT !.threadId = Absent],
                             EditWithoutMapping(ec))
                   ELSE IF ChecksStaleness(ec)
                   THEN Goto(p, found, "shouldUpdate")
                   ELSE Goto(p, found, "edit")
    /\ UNCHANGED <<now, messageMappings, chat, delivered>>
    /\ UNCHANGED routerVars
    /\ UNCHANGED matching
    /\ UNCHANGED subscriptionVars
    /\ UNCHANGED serviceVars
    /\ UNCHANGED webhook
    /\ UNCHANGED swept

\* handleEdit, lines 207-222: the stale-update check
ShouldUpdate(p) ==
    /\ calls[p].pc = "shouldUpdate"
    /\ LET c == calls[p]
           prm == c.params
           ec == prm.entityContext
       IN  \E dbOk \in BOOLEAN :
             IF ~dbOk
             THEN Catch(p, c)
             ELSE IF shouldUpdate(messageMappings, prm.spaceId, prm.channelId,
                                  prm.repoFullName, ec.githubEntityType,
                                  ec.githubEntityId, ec.githubUpdatedAt)
             THEN Goto(p, c, "edit")
             ELSE Finish(p, c)
    /\ UNCHANGED <<now, messageMappings, chat, delivered>>
    /\ UNCHANGED routerVars
    /\ UNCHANGED matching
    /\ UNCHANGED subscriptionVars
    /\ UNCHANGED serviceVars
    /\ UNCHANGED webhook
    /\ UNCHANGED swept

\* handleEdit, line 224: bot.editMessage
Edit(p) ==
    /\ calls[p].pc = "edit"
    /\ LET c == calls[p]
           prm == c.params
           id == c.existingMessageId
       IN  \E ok \in BOOLEAN :
             LET op == ChatOp("edit", prm.channelId, id, Absent, c.message, ok)
                 called == [c EXCEPT !.ops = Append(c.ops, op)]
             IN  IF ok
                 THEN /\ chat' = [chat EXCEPT ![id].message = c.message]
                      /\ Goto(p, called, "storeEdit")
                 ELSE /\ chat' = chat
                      /\ ChatThrows(p, called)
    /\ UNCHANGED <<now, messageMappings, delivered>>
    /\ UNCHANGED routerVars
    /\ UNCHANGED matching
    /\ UNCHANGED subscriptionVars
    /\ UNCHANGED serviceVars
    /\ UNCHANGED webhook
    /\ UNCHANGED swept

\* handleEdit, lines 227-237: storeMapping with the new timestamp
StoreEdit(p) ==
    /\ calls[p].pc = "storeEdit"
    /\ LET c == calls[p]
           prm == c.params
       IN  \E dbOk \in BOOLEAN :
             IF ~dbOk
             THEN /\ Catch(p, c)
                  /\ messageMappings' = messageMappings
             ELSE /\ Finish(p, c)
                  /\ messageMappings' =
                       storeMapping(messageMappings, prm.spaceId,
                                    prm.channelId, prm.repoFullName,
                                    prm.entityContext, c.existingMessageId,
                                    now)
    /\ UNCHANGED <<now, chat, delivered>>
    /\ UNCHANGED routerVars
    /\ UNCHANGED matching
    /\ UNCHANGED subscriptionVars
    /\ UNCHANGED serviceVars
    /\ UNCHANGED webhook
    /\ UNCHANGED swept

\* handleCreate, lines 252-256: bot.sendMessage; it throws, or answers with
\* an event id, or answers without one
Send(p) ==
    /\ calls[p].pc = "send"
    /\ LET c == calls[p]
           prm == c.params
       IN  \E outcome \in {"ok", "noEventId", "throws"} :
             LET eventId == IF outcome = "ok" THEN Len(chat) + 1 ELSE Absent
                 op == ChatOp("send", prm.channelId, eventId, c.threadId,
                              c.message, outcome # "throws")
                 called == [c EXCEPT !.ops = Append(c.ops, op),
                                     !.eventId = eventId]
             IN  CASE outcome = "throws" ->
                        /\ chat' = chat
                        /\ ChatThrows(p, called)
                   [] outcome = "noEventId" ->
                        /\ chat' = chat
                        /\ Finish(p, called)
                   [] OTHER ->
                        /\ chat' = Append(chat,
                                     [channelId |-> prm.channelId,
                                      threadId |-> c.threadId,
                                      message |-> c.message,
                                      removed |-> FALSE])
                        /\ IF prm.entityContext.present
                           THEN Goto(p, called, "storeCreate")
                           ELSE Finish(p, called)
    /\ UNCHANGED <<now, messageMappings, delivered>>
    /\ UNCHANGED routerVars
    /\ UNCHANGED matching
    /\ UNCHANGED subscriptionVars
    /\ UNCHANGED serviceVars
    /\ UNCHANGED webhook
    /\ UNCHANGED swept

\* handleCreate, lines 259-269: storeMapping with the new event id
StoreCreate(p) ==
    /\ calls[p].pc = "storeCreate"
    /\ LET c == calls[p]
           prm == c.params
       IN  \E dbOk \in BOOLEAN :
             IF ~dbOk
             THEN /\ Catch(p, c)
                  /\ messageMappings' = messageMappings
             ELSE /\ Finish(p, c)
                  /\ messageMappings' =
                       storeMapping(messageMappings, prm.spaceId,
                                    prm.channelId, prm.repoFullName,
                                    prm.entityContext, c.eventId, now)
    /\ UNCHANGED <<now, chat, delivered>>
    /\ UNCHANGED routerVars
    /\ UNCHANGED matching
    /\ UNCHANGED subscriptionVars
    /\ UNCHANGED serviceVars
    /\ UNCHANGED webhook
    /\ UNCHANGED swept

\* deliver has returned to its caller
Return(p) ==
    /\ calls[p].pc = "done"
    /\ calls' = [calls EXCEPT ![p] = IdleCall]
    /\ UNCHANGED <<now, messageMappings, chat, delivered>>
    /\ UNCHANGED routerVars
    /\ UNCHANGED matching
    /\ UNCHANGED subscriptionVars
    /\ UNCHANGED serviceVars
    /\ UNCHANGED webhook
    /\ UNCHANGED swept

\* One step of a deliver call
Step(p) ==
    \/ DeleteLookup(p)
    \/ Remove(p)
    \/ DeleteMapping(p)
    \/ EditLookup(p)
    \/ ShouldUpdate(p)
    \/ Edit(p)
    \/ StoreEdit(p)
    \/ Send(p)
    \/ StoreCreate(p)
    \/ Return(p)

\* cleanupExpired, lines 402-420 (the periodic sweep)
cleanupExpired ==
    /\ NoneInFlight
    /\ messageMappings' = expiredRemoved(messageMappings, now)
    /\ messageMappings' # messageMappings
    /\ swept' = Swept("message_mappings", now,
                      Cardinality(messageMappings \ messageMappings'))
    /\ UNCHANGED <<now, chat, calls, delivered>>
    /\ UNCHANGED routerVars
    /\ UNCHANGED matching
    /\ UNCHANGED subscriptionVars
    /\ UNCHANGED serviceVars
    /\ UNCHANGED webhook

\* Time passes between deliveries
Tick ==
    /\ NoneInFlight
    /\ now + TickDays <= MaxTicks * TickDays
    /\ now' = now + TickDays
    /\ UNCHANGED <<messageMappings, chat, calls, delivered>>
    /\ UNCHANGED routerVars
    /\ UNCHANGED matching
    /\ UNCHANGED subscriptionVars
    /\ UNCHANGED serviceVars
    /\ UNCHANGED webhook
    /\ UNCHANGED swept

---------------------------------------------------------------------------
(* Branch filters.  A string is the sequence of its characters. *)

BrMain == <<"m", "a", "i", "n">>
BrDev == <<"d", "e", "v">>
Branches == {BrMain, BrDev}

\* BranchFilter: null, or a string
NullFilter == [isNull |-> TRUE, text |-> <<>>]
TextFilter(text) == [isNull |-> FALSE, text |-> text]
AllFilter == TextFilter(<<"a", "l", "l">>)
\* "x*, dev"
PatternFilter == TextFilter(<<"x", "*", ",", " ", "d", "e", "v">>)

RECURSIVE split(_, _)
\* String.prototype.split(separator), for a one-character separator
split(str, sep) ==
    IF \A i \in 1..Len(str) : str[i] # sep
    THEN <<str>>
    ELSE LET i == CHOOSE j \in 1..Len(str) :
                    str[j] = sep /\ \A k \in 1..(j - 1) : str[k] # sep
         IN  <<SubSeq(str, 1, i - 1)>> \o split(SubSeq(str, i + 1, Len(str)), sep)

Whitespace == {" "}

\* No trimming
trim_Identity(str) == str

RECURSIVE trim(_)
\* String.prototype.trim
trim(str) ==
    IF str # <<>> /\ Head(str) \in Whitespace THEN trim(Tail(str))
    ELSE IF str # <<>> /\ str[Len(str)] \in Whitespace
    THEN trim(SubSeq(str, 1, Len(str) - 1))
    ELSE str

RECURSIVE isMatch(_, _)
\* picomatch's isMatch for patterns of literal characters and *: a * stands
\* for any run of characters other than /
isMatch(str, pattern) ==
    IF pattern = <<>> THEN str = <<>>
    ELSE IF Head(pattern) = "*"
    THEN \/ isMatch(str, Tail(pattern))
         \/ str # <<>> /\ Head(str) # "/" /\ isMatch(Tail(str), pattern)
    ELSE str # <<>> /\ Head(str) = Head(pattern)
                    /\ isMatch(Tail(str), Tail(pattern))

\* matchesBranchFilter that takes a null filter for "all"
matchesBranchFilter_NullIsAll(branch, filter, defaultBranch) ==
    IF filter.isNull \/ filter = AllFilter THEN TRUE
    ELSE LET patterns == split(filter.text, ",")
         IN  \E i \in 1..Len(patterns) : isMatch(branch, trim(patterns[i]))

\* matchesBranchFilter, lines 400-418
matchesBranchFilter(branch, filter, defaultBranch) ==
    IF filter.isNull THEN branch = defaultBranch
    ELSE IF filter = AllFilter THEN TRUE
    ELSE LET patterns == split(filter.text, ",")
         IN  \E i \in 1..Len(patterns) : isMatch(branch, trim(patterns[i]))

---------------------------------------------------------------------------
(* matchesBranchFilter called on its own *)

BrMain2 == <<"m", "a", "i", "n", "2">>
BrDevelop == <<"d", "e", "v", "e", "l", "o", "p">>
BrReleaseV1 == <<"r", "e", "l", "e", "a", "s", "e", "/", "v", "1", ".", "0">>
BrReleasesV1 == <<"r", "e", "l", "e", "a", "s", "e", "s", "/", "v", "1", ".", "0">>
BrFeatureA == <<"f", "e", "a", "t", "u", "r", "e", "/", "a">>

\* The branches matched
BranchNames ==
    {BrMain, BrMain2, BrDev, BrDevelop, BrReleaseV1, BrReleasesV1, BrFeatureA}

\* "main", "release/*", "main , develop", "main,feature/*"
FilterMain == TextFilter(BrMain)
FilterRelease == TextFilter(<<"r", "e", "l", "e", "a", "s", "e", "/", "*">>)
FilterMainDevelop == TextFilter(<<"m", "a", "i", "n", " ", ",", " ", "d", "e", "v", "e", "l", "o", "p">>)
FilterMainFeature == TextFilter(<<"m", "a", "i", "n", ",", "f", "e", "a", "t", "u", "r", "e", "/", "*">>)

\* The filters matched against
BranchFilters ==
    {NullFilter, AllFilter, PatternFilter, FilterMain, FilterRelease,
     FilterMainDevelop, FilterMainFeature}

DefaultBranches == {BrMain, BrDevelop}

MatchingCall(pc, branch, filter, defaultBranch, result) ==
    [pc |-> pc, branch |-> branch, filter |-> filter,
     defaultBranch |-> defaultBranch, result |-> result]

NoMatching == MatchingCall("none", <<>>, NullFilter, <<>>, FALSE)

\* The calls of matchesBranchFilter tried
MatchingCalls ==
    {MatchingCall("called", branch, filter, defaultBranch, FALSE) :
        branch \in BranchNames, filter \in BranchFilters,
        defaultBranch \in DefaultBranches}

\* matchesBranchFilter(branch, filter, defaultBranch) returns
MatchBranch ==
    /\ matching.pc = "called"
    /\ matching' =
         [matching EXCEPT
            !.pc = "returned",
            !.result = matchesBranchFilter(matching.branch, matching.filter,
                                           matching.defaultBranch)]
    /\ UNCHANGED <<now, chat, swept>>
    /\ UNCHANGED <<messageMappings, calls, delivered, eventThreads, router>>
    /\ UNCHANGED subscriptionVars
    /\ UNCHANGED serviceVars
    /\ UNCHANGED webhook

---------------------------------------------------------------------------
(* The event processor: processEvent() and the webhook handlers *)

RouterChannels == {"c1", "c2", "c3"}

BRANCH_FILTERABLE_EVENTS ==
    {"pr", "commits", "ci", "reviews", "review_comments", "branches"}

ALLOWED_EVENT_TYPES ==
    {"pr", "issues", "commits", "releases", "ci", "comments", "reviews",
     "branches", "review_comments", "stars", "forks"}

\* A webhook payload: the fields the handlers and formatters read.  The
\* repository is r1, its default branch main, the PR or issue is number 1.
Payload(kind, action, branch, isPr) ==
    [kind |-> kind, action |-> action, number |-> 1, branch |-> branch,
     isPr |-> isPr, defaultBranch |-> BrMain]

Payloads ==
    {Payload("pull_request", a, b, TRUE) :
        a \in {"opened", "closed"}, b \in Branches}
    \cup {Payload("issues", "opened", BrMain, FALSE)}
    \cup {Payload("issue_comment", "created", BrMain, isPr) :
             isPr \in BOOLEAN}
    \cup {Payload("issue_comment", a, BrMain, TRUE) :
             a \in {"edited", "deleted"}}
    \cup {Payload("pull_request_review", "submitted", BrMain, TRUE)}
    \cup {Payload("pull_request_review_comment", "created", BrMain, TRUE)}
    \cup {Payload("push", "pushed", b, FALSE) : b \in Branches}
    \cup {Payload("watch", a, BrMain, FALSE) : a \in {"started", "deleted"}}

NoBranchContext == [present |-> FALSE, branch |-> <<>>]
BranchContext(branch) == [present |-> TRUE, branch |-> branch]

NoThreadingContext ==
    [present |-> FALSE, anchorType |-> "none", anchorNumber |-> Absent,
     isAnchor |-> FALSE]

ThreadingContext(anchorType, anchorNumber, isAnchor) ==
    [present |-> TRUE, anchorType |-> anchorType,
     anchorNumber |-> anchorNumber, isAnchor |-> isAnchor]

ProcessEventArgs(eventType, branchContext, threadingContext) ==
    [eventType |-> eventType, branchContext |-> branchContext,
     threadingContext |-> threadingContext]

\* Handlers of which onIssueComment takes every comment for an issue's
HandlerArgs_CommentsOnIssues(event) ==
    CASE event.kind = "pull_request" ->
           ProcessEventArgs("pr", BranchContext(event.branch),
               ThreadingContext("pr", event.number, event.action = "opened"))
      [] event.kind = "issues" ->
           ProcessEventArgs("issues", NoBranchContext,
               ThreadingContext("issue", event.number,
                                event.action = "opened"))
      [] event.kind = "issue_comment" ->
           ProcessEventArgs("comments", NoBranchContext,
               ThreadingContext("issue", event.number, FALSE))
      [] OTHER ->
           ProcessEventArgs("reviews", BranchContext(event.branch),
               ThreadingContext("pr", event.number, FALSE))

\* onPullRequest ... onWatch: what each handler passes to processEvent
HandlerArgs(event) ==
    CASE event.kind = "pull_request" ->
           ProcessEventArgs("pr", BranchContext(event.branch),
               ThreadingContext("pr", event.number, event.action = "opened"))
      [] event.kind = "push" ->
           ProcessEventArgs("commits", BranchContext(event.branch),
               NoThreadingContext)
      [] event.kind = "issues" ->
           ProcessEventArgs("issues", NoBranchContext,
               ThreadingContext("issue", event.number,
                                event.action = "opened"))
      [] event.kind = "issue_comment" ->
           ProcessEventArgs("comments", NoBranchContext,
               ThreadingContext(IF event.isPr THEN "pr" ELSE "issue",
                                event.number, FALSE))
      [] event.kind = "pull_request_review" ->
           ProcessEventArgs("reviews", BranchContext(event.branch),
               ThreadingContext("pr", event.number, FALSE))
      [] event.kind = "pull_request_review_comment" ->
           ProcessEventArgs("review_comments", BranchContext(event.branch),
               ThreadingContext("pr", event.number, FALSE))
      [] OTHER ->
           ProcessEventArgs("stars", NoBranchContext, NoThreadingContext)

\* A call of a webhook handler with a payload, and what it passed on
WebhookCall(pc, event, args) == [pc |-> pc, event |-> event, args |-> args]

NoArgs == ProcessEventArgs("none", NoBranchContext, NoThreadingContext)

NoWebhook ==
    WebhookCall("none", Payload("none", "none", <<>>, FALSE), NoArgs)

\* The payloads the handlers are called with on their own: every kind with
\* every action, for the PRs and issues 1 and 2
WebhookKinds ==
    {"pull_request", "issues", "issue_comment", "pull_request_review",
     "pull_request_review_comment", "push", "watch"}

WebhookActions == {"opened", "edited", "closed", "created", "submitted"}

WebhookNumbers == {1, 2}

WebhookPayloads ==
    {[Payload(kind, action, BrMain, isPr) EXCEPT !.number = number] :
       kind \in WebhookKinds, action \in WebhookActions,
       isPr \in BOOLEAN, number \in WebhookNumbers}

WebhookCalls == {WebhookCall("called", event, NoArgs) : event \in WebhookPayloads}

\* onPullRequest ... onPullRequestReviewComment: the handler builds the
\* arguments of processEvent from the payload
OnWebhook ==
    /\ webhook.pc = "called"
    /\ webhook' = [webhook EXCEPT !.pc = "returned",
                                  !.args = HandlerArgs(webhook.event)]
    /\ UNCHANGED <<now, chat, swept, matching>>
    /\ UNCHANGED deliveryVars
    /\ UNCHANGED routerVars
    /\ UNCHANGED subscriptionVars
    /\ UNCHANGED serviceVars

\* The actions a formatter renders; for the others it returns ""
RenderedActions(kind) ==
    CASE kind = "issue_comment" -> {"created", "edited"}
      [] kind = "pull_request_review" -> {"submitted", "edited"}
      [] kind = "pull_request_review_comment" -> {"created", "edited"}
      [] kind = "watch" -> {"started"}
      [] kind = "push" -> {"pushed"}
      [] OTHER -> {"opened", "closed"}

\* The text a formatter returns: whether it carries the _(edited)_ mark and
\* whether it is the short form of a thread reply
Rendered(edited, isThreadReply) ==
    [empty |-> FALSE, body |-> IF edited THEN 1 ELSE 0,
     reply |-> isThreadReply]

\* The formatters: "" for an action that shows nothing
formatEvent(event, isThreadReply) ==
    IF event.action \notin RenderedActions(event.kind)
    THEN NoMessage
    ELSE Rendered(event.action = "edited", isThreadReply)

\* A subscription as getRepoSubscribers answers it
Subscriber(channelId, eventTypes, branchFilter) ==
    [spaceId |-> "s1", channelId |-> channelId, eventTypes |-> eventTypes,
     branchFilter |-> branchFilter]

\* The subscriptions tried: per channel, to everything or to one comment tag
\* or to PRs and issues, on every branch, on the default branch or on the
\* branches of a pattern list
SubscriberLists ==
    {<<s1, s2, s3>> :
        s1 \in {Subscriber("c1", ALLOWED_EVENT_TYPES, AllFilter),
                Subscriber("c1", {"comments"}, AllFilter)},
        s2 \in {Subscriber("c2", ALLOWED_EVENT_TYPES, AllFilter),
                Subscriber("c2", {"review_comments"}, AllFilter),
                Subscriber("c2", ALLOWED_EVENT_TYPES, NullFilter)},
        s3 \in {Subscriber("c3", ALLOWED_EVENT_TYPES, AllFilter),
                Subscriber("c3", {"pr", "issues"}, AllFilter)}}
    \cup {<<Subscriber("c1", ALLOWED_EVENT_TYPES, NullFilter),
              Subscriber("c2", ALLOWED_EVENT_TYPES, PatternFilter)>>}

EventTypeMatches_Any(ch, eventType) == TRUE

\* processEvent, lines 110-113: ch.eventTypes.includes(eventType)
EventTypeMatches(ch, eventType) == eventType \in ch.eventTypes

\* processEvent, lines 110-123: the subscribers interested in the event
Interested(channels, event, args) ==
    SelectSeq(channels,
        LAMBDA ch :
          /\ EventTypeMatches(ch, args.eventType)
          /\ args.branchContext.present
               => matchesBranchFilter(args.branchContext.branch,
                                      ch.branchFilter, event.defaultBranch))

\* ThreadService.getThreadId: threadEventId of the row that is not expired
getThreadId(rows, spaceId, channelId, repoFullName, anchorType, anchorNumber, t) ==
    LET results == {r \in rows :
                      /\ r.spaceId = spaceId
                      /\ r.channelId = channelId
                      /\ r.repoFullName = repoFullName
                      /\ r.anchorType = anchorType
                      /\ r.anchorNumber = anchorNumber
                      /\ r.expiresAt >= t}
    IN  IF results = {} THEN Absent
        ELSE (CHOOSE r \in results : TRUE).threadEventId

\* ThreadService.storeThread: insert ... on conflict do update
storeThread(rows, spaceId, channelId, repoFullName, anchorType, anchorNumber, threadEventId, t) ==
    LET conflict == {r \in rows :
                       /\ r.spaceId = spaceId
                       /\ r.channelId = channelId
                       /\ r.repoFullName = repoFullName
                       /\ r.anchorType = anchorType
                       /\ r.anchorNumber = anchorNumber}
    IN  IF conflict = {}
        THEN rows \cup {[spaceId |-> spaceId, channelId |-> channelId,
                         repoFullName |-> repoFullName,
                         anchorType |-> anchorType,
                         anchorNumber |-> anchorNumber,
                         threadEventId |-> threadEventId, createdAt |-> t,
                         expiresAt |-> t + DEFAULT_EXPIRY_DAYS]}
        ELSE (rows \ conflict)
             \cup {[r EXCEPT !.threadEventId = threadEventId,
                             !.expiresAt = t + DEFAULT_EXPIRY_DAYS]
                     : r \in conflict}

\* One channel's part of the fan-out (the callback of interestedChannels.map)
NoTask ==
    [pc |-> "none", threadId |-> Absent, message |-> NoMessage,
     eventId |-> Absent, formatterArgs |-> <<>>, ops |-> <<>>,
     threw |-> FALSE]

NoPayload == Payload("none", "none", <<>>, FALSE)

IdleRouter ==
    [status |-> "idle", event |-> NoPayload,
     args |-> ProcessEventArgs("none", NoBranchContext, NoThreadingContext),
     queried |-> FALSE, channels |-> <<>>, interested |-> <<>>,
     tasks |-> [ch \in RouterChannels |-> NoTask],
     routed |-> 0]

IsFollowUp(args) ==
    args.threadingContext.present /\ ~args.threadingContext.isAnchor

\* lines 153-166: format, and send unless the message is empty
Formatted(task, event, threadId) ==
    LET message == formatEvent(event, threadId # Absent)
    IN  [task EXCEPT !.threadId = threadId, !.message = message,
                     !.formatterArgs = <<threadId # Absent>>,
                     !.pc = IF message.empty THEN "done" ELSE "send"]

\* lines 138-166: each callback runs up to its first await
StartedTask(event, args) ==
    IF IsFollowUp(args)
    THEN [NoTask EXCEPT !.pc = "threadLookup"]
    ELSE Formatted(NoTask, event, Absent)

\* processEvent without the check of the branch context
MissingBranchContext_Ignored(args) == FALSE

\* lines 94-100: isBranchFilterable && !branchContext
MissingBranchContext(args) ==
    args.eventType \in BRANCH_FILTERABLE_EVENTS /\ ~args.branchContext.present

\* processEvent(event, ...), lines 90-138: the branch context check, the
\* subscribers, the filters, and the start of the fan-out
ProcessEvent(event, args, channels) ==
    /\ router.status = "idle"
    /\ router.routed < MaxEvents
    /\ \E dbOk \in BOOLEAN :
         LET started == [router EXCEPT !.event = event, !.args = args,
                                       !.routed = router.routed + 1]
             interested == Interested(channels, event, args)
             chosen == {interested[i].channelId : i \in 1..Len(interested)}
         IN  IF MissingBranchContext(args)
             THEN router' = [started EXCEPT !.status = "threw"]
             ELSE IF ~dbOk
             THEN router' = [started EXCEPT !.status = "threw",
                                            !.queried = TRUE]
             ELSE IF interested = <<>>
             THEN router' = [started EXCEPT !.status = "returned",
                                            !.queried = TRUE,
                                            !.channels = channels]
             ELSE router' =
                    [started EXCEPT
                       !.status = "running",
                       !.queried = TRUE,
                       !.channels = channels,
                       !.interested = interested,
                       !.tasks = [ch \in RouterChannels |->
                                    IF ch \in chosen
                                    THEN StartedTask(event, args)
                                    ELSE NoTask]]
    /\ UNCHANGED <<now, chat, eventThreads>>
    /\ UNCHANGED deliveryVars
    /\ UNCHANGED matching
    /\ UNCHANGED subscriptionVars
    /\ UNCHANGED serviceVars
    /\ UNCHANGED webhook
    /\ UNCHANGED swept

SetTask(ch, task) == router' = [router EXCEPT !.tasks[ch] = task]

\* lines 143-161: the thread of a follow-up event
TaskThreadLookup(ch) ==
    /\ router.status = "running"
    /\ router.tasks[ch].pc = "threadLookup"
    /\ LET task == router.tasks[ch]
           tc == router.args.threadingContext
       IN  \E dbOk \in BOOLEAN :
             IF ~dbOk
             THEN SetTask(ch, [task EXCEPT !.pc = "done", !.threw = TRUE])
             ELSE SetTask(ch, Formatted(task, router.event,
                                getThreadId(eventThreads, "s1", ch, "r1",
                                            tc.anchorType, tc.anchorNumber,
                                            now)))
    /\ UNCHANGED <<now, chat, eventThreads>>
    /\ UNCHANGED deliveryVars
    /\ UNCHANGED matching
    /\ UNCHANGED subscriptionVars
    /\ UNCHANGED serviceVars
    /\ UNCHANGED webhook
    /\ UNCHANGED swept

\* A fan-out without the catch: the first failure ends the other callbacks
SendFailed_AbortOthers(tasks, ch, task) ==
    [c \in RouterChannels |->
        IF c = ch THEN [task EXCEPT !.pc = "done", !.threw = TRUE]
        ELSE IF tasks[c].pc \in {"none", "done"} THEN tasks[c]
        ELSE [tasks[c] EXCEPT !.pc = "done"]]

\* What a failing sendMessage does to the channel's callback: the catch of
\* lines 179-181 ends it, the other channels go on
SendFailed(tasks, ch, task) ==
    [tasks EXCEPT ![ch] = [task EXCEPT !.pc = "done", !.threw = TRUE]]

\* lines 164-178: bot.sendMessage
TaskSend(ch) ==
    /\ router.status = "running"
    /\ router.tasks[ch].pc = "send"
    /\ LET task == router.tasks[ch]
           tc == router.args.threadingContext
       IN  \E outcome \in {"ok", "noEventId", "throws"} :
             LET eventId == IF outcome = "ok" THEN Len(chat) + 1 ELSE Absent
                 op == ChatOp("send", ch, eventId, task.threadId,
                              task.message, outcome # "throws")
                 called == [task EXCEPT !.ops = Append(task.ops, op),
                                        !.eventId = eventId]
             IN  CASE outcome = "throws" ->
                        /\ chat' = chat
                        /\ router' = [router EXCEPT
                                        !.tasks = SendFailed(router.tasks, ch,
                                                             called)]
                   [] outcome = "noEventId" ->
                        /\ chat' = chat
                        /\ SetTask(ch, [called EXCEPT !.pc = "done"])
                   [] OTHER ->
                        /\ chat' = Append(chat,
                                     [channelId |-> ch,
                                      threadId |-> task.threadId,
                                      message |-> task.message,
                                      removed |-> FALSE])
                        /\ SetTask(ch, [called EXCEPT !.pc =
                                          IF tc.present /\ tc.isAnchor
                                          THEN "storeThread" ELSE "done"])
    /\ UNCHANGED <<now, eventThreads>>
    /\ UNCHANGED deliveryVars
    /\ UNCHANGED matching
    /\ UNCHANGED subscriptionVars
    /\ UNCHANGED serviceVars
    /\ UNCHANGED webhook
    /\ UNCHANGED swept

\* lines 169-177: the thread mapping of an anchor
TaskStoreThread(ch) ==
    /\ router.status = "running"
    /\ router.tasks[ch].pc = "storeThread"
    /\ LET task == router.tasks[ch]
           tc == router.args.threadingContext
       IN  \E dbOk \in BOOLEAN :
             IF ~dbOk
             THEN /\ SetTask(ch, [task EXCEPT !.pc = "done", !.threw = TRUE])
                  /\ eventThreads' = eventThreads
             ELSE /\ SetTask(ch, [task EXCEPT !.pc = "done"])
                  /\ eventThreads' =
                       storeThread(eventThreads, "s1", ch, "r1",
                                   tc.anchorType, tc.anchorNumber,
                                   task.eventId, now)
    /\ UNCHANGED <<now, chat>>
    /\ UNCHANGED deliveryVars
    /\ UNCHANGED matching
    /\ UNCHANGED subscriptionVars
    /\ UNCHANGED serviceVars
    /\ UNCHANGED webhook
    /\ UNCHANGED swept

\* line 184: Promise.allSettled resolves when every callback has ended
AllSettled ==
    /\ router.status = "running"
    /\ \A ch \in RouterChannels : router.tasks[ch].pc \in {"none", "done"}
    /\ router' = [router EXCEPT !.status = "returned"]
    /\ UNCHANGED <<now, chat, eventThreads>>
    /\ UNCHANGED deliveryVars
    /\ UNCHANGED matching
    /\ UNCHANGED subscriptionVars
    /\ UNCHANGED serviceVars
    /\ UNCHANGED webhook
    /\ UNCHANGED swept

\* The webhook handler is ready for the next event
RouterReturn ==
    /\ router.status \in {"returned", "threw"}
    /\ router' = [IdleRouter EXCEPT !.routed = router.routed]
    /\ UNCHANGED <<now, chat, eventThreads>>
    /\ UNCHANGED deliveryVars
    /\ UNCHANGED matching
    /\ UNCHANGED subscriptionVars
    /\ UNCHANGED serviceVars
    /\ UNCHANGED webhook
    /\ UNCHANGED swept

\* ThreadService.cleanupExpired
cleanupExpiredThreads ==
    /\ router.status = "idle"
    /\ eventThreads' = expiredRemoved(eventThreads, now)
    /\ eventThreads' # eventThreads
    /\ swept' = Swept("event_threads", now,
                      Cardinality(eventThreads \ eventThreads'))
    /\ UNCHANGED <<now, chat, router>>
    /\ UNCHANGED deliveryVars
    /\ UNCHANGED matching
    /\ UNCHANGED subscriptionVars
    /\ UNCHANGED serviceVars
    /\ UNCHANGED webhook

RouterTick ==
    /\ router.status = "idle"
    /\ now + TickDays <= MaxTicks * TickDays
    /\ now' = now + TickDays
    /\ UNCHANGED <<chat, eventThreads, router>>
    /\ UNCHANGED deliveryVars
    /\ UNCHANGED matching
    /\ UNCHANGED subscriptionVars
    /\ UNCHANGED serviceVars
    /\ UNCHANGED webhook
    /\ UNCHANGED swept

\* The webhook handlers' calls of processEvent, one per payload
HandlerCalls == {[event |-> event, args |-> HandlerArgs(event)] : event \in Payloads}

\* Calls of processEvent that leave out the branch context of a
\* branch-filterable event (no handler makes them; processEvent guards
\* against them)
MisroutedCalls ==
    {[event |-> call.event,
      args |-> [call.args EXCEPT !.branchContext = NoBranchContext]] :
        call \in {c \in HandlerCalls :
                     c.args.eventType \in BRANCH_FILTERABLE_EVENTS}}

NextRouter ==
    \/ \E call \in HandlerCalls \cup MisroutedCalls, channels \in SubscriberLists :
         ProcessEvent(call.event, call.args, channels)
    \/ \E ch \in RouterChannels : TaskThreadLookup(ch)
    \/ \E ch \in RouterChannels : TaskSend(ch)
    \/ \E ch \in RouterChannels : TaskStoreThread(ch)
    \/ AllSettled
    \/ RouterReturn
    \/ cleanupExpiredThreads
    \/ RouterTick

---------------------------------------------------------------------------
(* The /github command: handleGithubSubscription() on the in-memory        *)
(* SubscriptionStorage.  A Map is a function whose domain is its key set.  *)

SubscriptionChannels == {"ch1", "ch2"}

\* The character U+0060, written as a word
Backquote == "backquote"

RepoA == <<"o", "/", "a">>
RepoB == <<"o", "/", "b">>

\* The repository argument as typed: plain, in bold, as code, without a
\* slash, with two slashes
RepoArgs ==
    {RepoA, RepoB,
     <<"*", "*", "o", "/", "a", "*", "*">>,
     <<Backquote, "o", "/", "b", Backquote>>,
     <<"o", "a">>,
     <<"o", "/", "a", "/", "b">>}

EmptyMap == [k \in {} |-> {}]

MapHas(map, key) == key \in DOMAIN map

MapSet(map, key, value) ==
    [k \in DOMAIN map \cup {key} |-> IF k = key THEN value ELSE map[k]]

MapDelete(map, key) == [k \in DOMAIN map \ {key} |-> map[k]]

EmptyStorage == [channelToRepos |-> EmptyMap, repoToChannels |-> EmptyMap]

\* String.prototype.replace(/c/g, "")
RemoveChar(str, ch) == SelectSeq(str, LAMBDA c : c # ch)

RECURSIVE RemovePairs(_, _)
\* String.prototype.replace(/cc/g, "")
RemovePairs(str, ch) ==
    IF Len(str) < 2 THEN str
    ELSE IF str[1] = ch /\ str[2] = ch
    THEN RemovePairs(SubSeq(str, 3, Len(str)), ch)
    ELSE <<Head(str)>> \o RemovePairs(Tail(str), ch)

\* utils/stripper.ts
stripMarkdown(text) ==
    trim(RemovePairs(RemoveChar(RemoveChar(RemovePairs(text, "*"), "*"),
                                Backquote),
                     "~"))

\* String.prototype.toLowerCase, for the actions typed
toLowerCase(action) ==
    CASE action = "UNSUBSCRIBE" -> "unsubscribe"
      [] action = "Subscribe" -> "subscribe"
      [] OTHER -> action

Reply(kind, repos) == [kind |-> kind, repos |-> repos]

NoReply == Reply("none", {})

Command(channelId, args) == [channelId |-> channelId, args |-> args]

NoCommand == [channelId |-> "none", args |-> <<>>, reply |-> NoReply]

\* The commands typed: event.channelId and event.args
SubscriptionCommands ==
    {Command(ch, args) :
       ch \in SubscriptionChannels,
       args \in {<<>>, <<"status">>, <<"help">>, <<"subscribe">>,
                 <<"unsubscribe">>, <<"UNSUBSCRIBE">>}
               \cup {<<a, r>> : a \in {"subscribe", "Subscribe",
                                       "unsubscribe"},
                                r \in RepoArgs}}

Handled(cmd, reply) ==
    [channelId |-> cmd.channelId, args |-> cmd.args, reply |-> reply]

\* case "subscribe", lines 35-90.  isValid is what validateRepo answers.
subscribe(cmd, isValid) ==
    IF Len(cmd.args) < 2
    THEN /\ command' = Handled(cmd, Reply("subscribeUsage", {}))
         /\ storage' = storage
    ELSE
      LET repo == stripMarkdown(cmd.args[2])
          channelId == cmd.channelId
      IN  IF (\A i \in 1..Len(repo) : repo[i] # "/")
             \/ Len(split(repo, "/")) # 2
          THEN /\ command' = Handled(cmd, Reply("invalidFormat", {}))
               /\ storage' = storage
          ELSE IF ~isValid
          THEN /\ command' = Handled(cmd, Reply("notFound", {repo}))
               /\ storage' = storage
          ELSE
            LET c2r == storage.channelToRepos
                r2c == storage.repoToChannels
                repos == IF MapHas(c2r, channelId) THEN c2r[channelId] ELSE {}
                channels == IF MapHas(r2c, repo) THEN r2c[repo] ELSE {}
            IN  /\ storage' =
                     [channelToRepos |->
                        MapSet(c2r, channelId, repos \cup {repo}),
                      repoToChannels |->
                        MapSet(r2c, repo, channels \cup {channelId})]
                /\ command' = Handled(cmd, Reply("subscribed", {repo}))

\* An unsubscribe that leaves the reverse map as it is
RemoveFromReverse_Noop(r2c, repos, channelId) == r2c

\* lines 102-111: the channel leaves the set of every repository of repos,
\* and a set left empty leaves the map
RemoveFromReverse(r2c, repos, channelId) ==
    LET emptied == {r \in DOMAIN r2c \cap repos : r2c[r] \ {channelId} = {}}
    IN  [r \in DOMAIN r2c \ emptied |->
           IF r \in repos THEN r2c[r] \ {channelId} ELSE r2c[r]]

\* case "unsubscribe", lines 92-121
unsubscribe(cmd) ==
    LET channelId == cmd.channelId
        c2r == storage.channelToRepos
    IN  IF ~MapHas(c2r, channelId) \/ c2r[channelId] = {}
        THEN /\ command' = Handled(cmd, Reply("noSubscriptions", {}))
             /\ storage' = storage
        ELSE /\ storage' =
                  [channelToRepos |-> MapDelete(c2r, channelId),
                   repoToChannels |->
                     RemoveFromReverse(storage.repoToChannels,
                                       c2r[channelId], channelId)]
             /\ command' = Handled(cmd, Reply("unsubscribedAll", {}))

\* case "status", lines 123-143
status(cmd) ==
    LET c2r == storage.channelToRepos
    IN  /\ command' =
             Handled(cmd,
                     IF ~MapHas(c2r, cmd.channelId) \/ c2r[cmd.channelId] = {}
                     THEN Reply("noSubscriptionsStatus", {})
                     ELSE Reply("statusList", c2r[cmd.channelId]))
        /\ storage' = storage

\* handleGithubSubscription(handler, event, storage)
handleGithubSubscription(cmd, isValid) ==
    /\ IF Len(cmd.args) = 0
       THEN /\ command' = Handled(cmd, Reply("usage", {}))
            /\ storage' = storage
       ELSE LET action == toLowerCase(cmd.args[1])
            IN  CASE action = "subscribe" -> subscribe(cmd, isValid)
                  [] action = "unsubscribe" -> unsubscribe(cmd)
                  [] action = "status" -> status(cmd)
                  [] OTHER -> /\ command' =
                                   Handled(cmd, Reply("unknownAction", {}))
                              /\ storage' = storage
    /\ UNCHANGED <<now, chat, swept, matching, webhook>>
    /\ UNCHANGED deliveryVars
    /\ UNCHANGED routerVars
    /\ UNCHANGED serviceVars

---------------------------------------------------------------------------
(* GitHubOAuthService: the OAuth state tokens and the token refresh *)

MaxStates == 2      \* state tokens issued by getAuthorizationUrl
MaxRefreshes == 2   \* runs of doRefreshAccessToken
MaxClockTicks == 2  \* ticks of the OAuth clock

STATE_EXPIRY_MINUTES == 15

ClockStep == (2 * STATE_EXPIRY_MINUTES) \div 3

OAuthUsers == {"u1", "u2"}

\* What a state value an attacker or a browser may send back looks like
StateValues == 1..MaxStates

StateRow(state, townsUserId, expiresAt) ==
    [state |-> state, townsUserId |-> townsUserId, expiresAt |-> expiresAt]

\* undefined: no row was deleted
NoStateData == StateRow(Absent, "none", 0)

\* A row of github_user_tokens by what doRefreshAccessToken reads of it
TokenStates == {"none", "linked", "noRefreshToken", "refreshTokenExpired"}

Promise(townsUserId, pc, result) ==
    [townsUserId |-> townsUserId, pc |-> pc, result |-> result]

EmptyOAuth ==
    [oauthStates |-> {},
     issued |-> 0,
     tokenExchanges |-> <<>>,
     githubUserTokens |-> [u \in OAuthUsers |-> "none"],
     refreshPromises |-> [u \in OAuthUsers |-> Absent],
     promises |-> <<>>]

IdleOAuthCall ==
    [pc |-> "idle", op |-> "none", state |-> Absent, townsUserId |-> "none",
     stateData |-> NoStateData, error |-> "none", promise |-> Absent,
     owner |-> FALSE, result |-> "none"]

InvalidState == "Invalid or expired state parameter"

StateExpired == "OAuth state expired"

\* getAuthorizationUrl: randomBytes(32) is a value no earlier call returned
getAuthorizationUrl(townsUserId) ==
    /\ oauth.issued < MaxStates
    /\ oauth' = [oauth EXCEPT
                   !.issued = @ + 1,
                   !.oauthStates =
                      @ \cup {StateRow(oauth.issued + 1, townsUserId,
                                       clock + STATE_EXPIRY_MINUTES)}]
    /\ UNCHANGED <<clock, oauthCalls, polling, feed>>
    /\ UNCHANGED <<now, chat, swept, matching, webhook>>
    /\ UNCHANGED deliveryVars
    /\ UNCHANGED routerVars
    /\ UNCHANGED subscriptionVars

\* A select in the place of the delete ... returning
consumeOAuthState_SelectOnly(states, state) ==
    LET hit == {r \in states : r.state = state}
    IN  [deleted |-> IF hit = {} THEN NoStateData ELSE CHOOSE r \in hit : TRUE,
         states |-> states]

\* consumeOAuthState: one DELETE ... WHERE state = ? RETURNING *
consumeOAuthState(states, state) ==
    LET hit == {r \in states : r.state = state}
    IN  [deleted |-> IF hit = {} THEN NoStateData ELSE CHOOSE r \in hit : TRUE,
         states |-> states \ hit]

\* handleCallback(code, state) is called
handleCallback(p, state) ==
    /\ oauthCalls[p].pc = "idle"
    /\ oauthCalls' = [oauthCalls EXCEPT
                        ![p] = [IdleOAuthCall EXCEPT !.pc = "consumeOAuthState",
                                                     !.op = "handleCallback",
                                                     !.state = state]]
    /\ UNCHANGED <<clock, oauth, polling, feed>>
    /\ UNCHANGED <<now, chat, swept, matching, webhook>>
    /\ UNCHANGED deliveryVars
    /\ UNCHANGED routerVars
    /\ UNCHANGED subscriptionVars

\* await this.consumeOAuthState(state): the statement runs in the database
ConsumeOAuthState(p) ==
    LET c == oauthCalls[p]
        res == consumeOAuthState(oauth.oauthStates, c.state)
    IN  /\ c.pc = "consumeOAuthState"
        /\ oauth' = [oauth EXCEPT !.oauthStates = res.states]
        /\ oauthCalls' = [oauthCalls EXCEPT ![p].pc = "checkState",
                                            ![p].stateData = res.deleted]
        /\ UNCHANGED <<clock, polling, feed>>
        /\ UNCHANGED <<now, chat, swept, matching, webhook>>
        /\ UNCHANGED deliveryVars
        /\ UNCHANGED routerVars
        /\ UNCHANGED subscriptionVars

\* handleCallback resumes: the two checks of stateData, then createToken starts
CheckState(p) ==
    LET c == oauthCalls[p] IN
      /\ c.pc = "checkState"
      /\ IF c.stateData = NoStateData
         THEN /\ oauthCalls' = [oauthCalls EXCEPT ![p].pc = "done",
                                                  ![p].error = InvalidState]
              /\ oauth' = oauth
         ELSE IF clock > c.stateData.expiresAt
         THEN /\ oauthCalls' = [oauthCalls EXCEPT ![p].pc = "done",
                                                  ![p].error = StateExpired]
              /\ oauth' = oauth
         ELSE /\ oauthCalls' = [oauthCalls EXCEPT ![p].pc = "createToken",
                                                  ![p].townsUserId =
                                                     c.stateData.townsUserId]
              /\ oauth' = [oauth EXCEPT
                             !.tokenExchanges = Append(@, c.state)]
      /\ UNCHANGED <<clock, polling, feed>>
      /\ UNCHANGED <<now, chat, swept, matching, webhook>>
      /\ UNCHANGED deliveryVars
      /\ UNCHANGED routerVars
      /\ UNCHANGED subscriptionVars

\* oauth.createToken, getUserOctokit and GET /user answer or throw; when they
\* answer, the token row of the state's user is written
CreateToken(p, ok) ==
    LET c == oauthCalls[p] IN
      /\ c.pc = "createToken"
      /\ IF ok
         THEN /\ oauth' = [oauth EXCEPT
                             !.githubUserTokens[c.townsUserId] = "linked"]
              /\ oauthCalls' = [oauthCalls EXCEPT ![p].pc = "done",
                                                  ![p].result = "linked"]
         ELSE /\ oauth' = oauth
              /\ oauthCalls' = [oauthCalls EXCEPT
                                  ![p].pc = "done",
                                  ![p].error = "token exchange failed"]
      /\ UNCHANGED <<clock, polling, feed>>
      /\ UNCHANGED <<now, chat, swept, matching, webhook>>
      /\ UNCHANGED deliveryVars
      /\ UNCHANGED routerVars
      /\ UNCHANGED subscriptionVars

\* cleanupExpiredStates: delete where expiresAt < now
cleanupExpiredStates ==
    /\ oauth' = [oauth EXCEPT
                   !.oauthStates = {r \in @ : ~(r.expiresAt < clock)}]
    /\ oauth' # oauth
    /\ UNCHANGED <<clock, oauthCalls, polling, feed>>
    /\ UNCHANGED <<now, chat, swept, matching, webhook>>
    /\ UNCHANGED deliveryVars
    /\ UNCHANGED routerVars
    /\ UNCHANGED subscriptionVars

ClockTick ==
    /\ clock + ClockStep <= MaxClockTicks * ClockStep
    /\ clock' = clock + ClockStep
    /\ UNCHANGED <<oauth, oauthCalls, polling, feed>>
    /\ UNCHANGED <<now, chat, swept, matching, webhook>>
    /\ UNCHANGED deliveryVars
    /\ UNCHANGED routerVars
    /\ UNCHANGED subscriptionVars

\* refreshPromises.get found nothing, whatever the map holds
ExistingPromise_None(map, townsUserId) == Absent

\* this.refreshPromises.get(townsUserId)
ExistingPromise(map, townsUserId) == map[townsUserId]

\* refreshAccessToken(townsUserId) up to its first await: the map is read and,
\* when it has no entry, doRefreshAccessToken is started and its promise set
refreshAccessToken(p, townsUserId) ==
    LET existingPromise == ExistingPromise(oauth.refreshPromises, townsUserId)
        refreshPromise == Len(oauth.promises) + 1
    IN  /\ oauthCalls[p].pc = "idle"
        /\ IF existingPromise # Absent
           THEN /\ oauthCalls' =
                     [oauthCalls EXCEPT
                        ![p] = [IdleOAuthCall EXCEPT
                                  !.pc = "await",
                                  !.op = "refreshAccessToken",
                                  !.townsUserId = townsUserId,
                                  !.promise = existingPromise]]
                /\ oauth' = oauth
           ELSE /\ Len(oauth.promises) < MaxRefreshes
                /\ oauthCalls' =
                     [oauthCalls EXCEPT
                        ![p] = [IdleOAuthCall EXCEPT
                                  !.pc = "await",
                                  !.op = "refreshAccessToken",
                                  !.townsUserId = townsUserId,
                                  !.promise = refreshPromise,
                                  !.owner = TRUE]]
                /\ oauth' =
                     [oauth EXCEPT
                        !.promises =
                           Append(@, Promise(townsUserId, "getUserToken",
                                             "none")),
                        !.refreshPromises[townsUserId] = refreshPromise]
        /\ UNCHANGED <<clock, polling, feed>>
        /\ UNCHANGED <<now, chat, swept, matching, webhook>>
        /\ UNCHANGED deliveryVars
        /\ UNCHANGED routerVars
        /\ UNCHANGED subscriptionVars

\* doRefreshAccessToken: getUserToken answers (or the database throws), then
\* the two early returns of null
GetUserToken(k, dbOk) ==
    LET pr == oauth.promises[k]
        tokenData == oauth.githubUserTokens[pr.townsUserId]
    IN  /\ pr.pc = "getUserToken"
        /\ oauth' =
             [oauth EXCEPT
                !.promises[k] =
                   IF ~dbOk
                   THEN Promise(pr.townsUserId, "settled", "rejected")
                   ELSE IF tokenData \in {"none", "noRefreshToken"}
                   THEN Promise(pr.townsUserId, "settled", "null")
                   ELSE IF tokenData = "refreshTokenExpired"
                   THEN Promise(pr.townsUserId, "settled", "null")
                   ELSE Promise(pr.townsUserId, "refreshToken", "none")]
        /\ UNCHANGED <<clock, oauthCalls, polling, feed>>
        /\ UNCHANGED <<now, chat, swept, matching, webhook>>
        /\ UNCHANGED deliveryVars
        /\ UNCHANGED routerVars
        /\ UNCHANGED subscriptionVars

\* doRefreshAccessToken: GitHub answers the refreshToken call, or it throws
RefreshToken(k, ok) ==
    LET pr == oauth.promises[k] IN
      /\ pr.pc = "refreshToken"
      /\ oauth' =
           [oauth EXCEPT
              !.promises[k] =
                 Promise(pr.townsUserId,
                         IF ok THEN "updateToken" ELSE "deleteUserToken",
                         "none")]
      /\ UNCHANGED <<clock, oauthCalls, polling, feed>>
      /\ UNCHANGED <<now, chat, swept, matching, webhook>>
      /\ UNCHANGED deliveryVars
      /\ UNCHANGED routerVars
      /\ UNCHANGED subscriptionVars

\* doRefreshAccessToken: the update of the row, then return authentication.token
UpdateToken(k) ==
    LET pr == oauth.promises[k] IN
      /\ pr.pc = "updateToken"
      /\ oauth' =
           [oauth EXCEPT
              !.githubUserTokens[pr.townsUserId] =
                 IF @ = "none" THEN "none" ELSE "linked",
              !.promises[k] = Promise(pr.townsUserId, "settled", "token")]
      /\ UNCHANGED <<clock, oauthCalls, polling, feed>>
      /\ UNCHANGED <<now, chat, swept, matching, webhook>>
      /\ UNCHANGED deliveryVars
      /\ UNCHANGED routerVars
      /\ UNCHANGED subscriptionVars

\* doRefreshAccessToken's catch: deleteUserToken, then return null
DeleteUserToken(k) ==
    LET pr == oauth.promises[k] IN
      /\ pr.pc = "deleteUserToken"
      /\ oauth' =
           [oauth EXCEPT
              !.githubUserTokens[pr.townsUserId] = "none",
              !.promises[k] = Promise(pr.townsUserId, "settled", "null")]
      /\ UNCHANGED <<clock, oauthCalls, polling, feed>>
      /\ UNCHANGED <<now, chat, swept, matching, webhook>>
      /\ UNCHANGED deliveryVars
      /\ UNCHANGED routerVars
      /\ UNCHANGED subscriptionVars

\* refreshAccessToken resumes when the promise it awaits has settled; the call
\* that set the map entry deletes it in its finally
AwaitRefresh(p) ==
    LET c == oauthCalls[p]
        pr == oauth.promises[c.promise]
    IN  /\ c.pc = "await"
        /\ pr.pc = "settled"
        /\ oauthCalls' = [oauthCalls EXCEPT ![p].pc = "done",
                                            ![p].result = pr.result]
        /\ oauth' = IF c.owner
                    THEN [oauth EXCEPT !.refreshPromises[c.townsUserId] = Absent]
                    ELSE oauth
        /\ UNCHANGED <<clock, polling, feed>>
        /\ UNCHANGED <<now, chat, swept, matching, webhook>>
        /\ UNCHANGED deliveryVars
        /\ UNCHANGED routerVars
        /\ UNCHANGED subscriptionVars

\* The caller of refreshAccessToken has its answer and may call again
RefreshReturn(p) ==
    /\ oauthCalls[p].pc = "done"
    /\ oauthCalls[p].op = "refreshAccessToken"
    /\ oauthCalls' = [oauthCalls EXCEPT ![p] = IdleOAuthCall]
    /\ UNCHANGED <<clock, oauth, polling, feed>>
    /\ UNCHANGED <<now, chat, swept, matching, webhook>>
    /\ UNCHANGED deliveryVars
    /\ UNCHANGED routerVars
    /\ UNCHANGED subscriptionVars

---------------------------------------------------------------------------
(* PollingService: start, stop, poll and pollRepo over one repository *)

MaxFeed == 3        \* events GitHub has for the repository
PageSize == 3       \* events in one answer of the events API
MaxPolls == 2       \* poll cycles that get past the two guards

PolledRepo == "r1"

\* The subscribers getRepoSubscribers may answer: the channel subscribed to
\* the repository, or none when it has unsubscribed since the cycle began
PolledChannelLists == {<<>>, <<"c1">>}

\* Event types a repository's feed holds: one formatEvent renders, one it
\* answers "" for
PolledKinds ==
    {[type |-> "IssuesEvent", action |-> "opened"],
     [type |-> "WatchEvent", action |-> "started"]}

GitHubEvent(id, kind) ==
    [id |-> id, type |-> kind.type, action |-> kind.action]

\* formatEvent of the polling service: "" for what it has no message for
formatPolledEvent(event) ==
    CASE event.type = "IssuesEvent" /\ event.action \in {"opened", "closed"} ->
           "issue"
      [] event.type = "PullRequestEvent"
           /\ event.action \in {"opened", "closed"} -> "pr"
      [] OTHER -> ""

\* Array.prototype.reverse, by value
reverse(array) == [i \in 1..Len(array) |-> array[Len(array) + 1 - i]]

\* events.findIndex(e => e.id === lastEventId), counted from 1; 0 for -1
findIndex(events, lastEventId) ==
    LET hits == {i \in 1..Len(events) : events[i].id = lastEventId}
    IN  IF hits = {} THEN 0 ELSE CHOOSE i \in hits : \A j \in hits : i <= j

\* The newest events of the feed, newest first
Page(events) ==
    LET n == Len(events)
        from == IF n > PageSize THEN n - PageSize + 1 ELSE 1
    IN  reverse(SubSeq(events, from, n))

PollingRow(etag, lastEventId) == [etag |-> etag, lastEventId |-> lastEventId]

\* No row of repo_polling_state; getPollingState answers null
NoPollingRow == PollingRow(Absent, Absent)

IdleCycle ==
    [pc |-> "idle", poll |-> 0, etag |-> Absent, lastEventId |-> Absent,
     fetched |-> <<>>, events |-> <<>>, newEvents |-> <<>>, aliased |-> FALSE,
     found |-> FALSE, newEtag |-> Absent, channels |-> <<>>, i |-> 0, j |-> 0,
     update |-> NoPollingRow]

IdlePolling ==
    [intervalId |-> FALSE, isPolling |-> FALSE, sendMessageFn |-> FALSE,
     lastPoll |-> "none", polls |-> 0,
     cycles |-> [p \in Procs |-> IdleCycle],
     repoPollingState |-> NoPollingRow,
     sent |-> <<>>]

\* The guard never holds
PollAlreadyInProgress_Never(pol) == FALSE

\* if (this.isPolling)
PollAlreadyInProgress(pol) == pol.isPolling

\* poll() up to its first await, in the slot p
PollEntry(pol, p) ==
    IF PollAlreadyInProgress(pol)
    THEN [pol EXCEPT !.lastPoll = "skipped"]
    ELSE IF ~pol.sendMessageFn
    THEN [pol EXCEPT !.lastPoll = "noSendMessageFn"]
    ELSE [pol EXCEPT !.isPolling = TRUE,
                     !.lastPoll = "started",
                     !.polls = @ + 1,
                     !.cycles[p] =
                        [IdleCycle EXCEPT !.pc = "getAllSubscribedRepos",
                                          !.poll = pol.polls + 1]]

\* poll() returns in the slot p: the finally block
Finally(pol, p) ==
    [pol EXCEPT !.isPolling = FALSE, !.cycles[p] = IdleCycle]

setSendMessageFunction ==
    /\ ~polling.sendMessageFn
    /\ polling' = [polling EXCEPT !.sendMessageFn = TRUE]
    /\ UNCHANGED <<clock, oauth, oauthCalls, feed>>
    /\ UNCHANGED <<now, chat, swept, matching, webhook>>
    /\ UNCHANGED deliveryVars
    /\ UNCHANGED routerVars
    /\ UNCHANGED subscriptionVars

\* start(): void this.poll(), then setInterval
start(p) ==
    /\ ~polling.intervalId
    /\ polling.cycles[p].pc = "idle"
    /\ polling.polls < MaxPolls
    /\ polling' = [PollEntry(polling, p) EXCEPT !.intervalId = TRUE]
    /\ UNCHANGED <<clock, oauth, oauthCalls, feed>>
    /\ UNCHANGED <<now, chat, swept, matching, webhook>>
    /\ UNCHANGED deliveryVars
    /\ UNCHANGED routerVars
    /\ UNCHANGED subscriptionVars

\* stop(): clearInterval; a poll in progress goes on
stop ==
    /\ polling.intervalId
    /\ polling' = [polling EXCEPT !.intervalId = FALSE]
    /\ UNCHANGED <<clock, oauth, oauthCalls, feed>>
    /\ UNCHANGED <<now, chat, swept, matching, webhook>>
    /\ UNCHANGED deliveryVars
    /\ UNCHANGED routerVars
    /\ UNCHANGED subscriptionVars

\* The interval's callback: void this.poll()
TimerFires(p) ==
    /\ polling.intervalId
    /\ polling.cycles[p].pc = "idle"
    /\ polling.polls < MaxPolls
    /\ polling' = PollEntry(polling, p)
    /\ UNCHANGED <<clock, oauth, oauthCalls, feed>>
    /\ UNCHANGED <<now, chat, swept, matching, webhook>>
    /\ UNCHANGED deliveryVars
    /\ UNCHANGED routerVars
    /\ UNCHANGED subscriptionVars

RepoOutcomes == {"throws", "none", "repos"}

\* poll(): getAllSubscribedRepos throws, answers [] or answers the repository
GetAllSubscribedRepos(p, outcome) ==
    /\ polling.cycles[p].pc = "getAllSubscribedRepos"
    /\ polling' = IF outcome = "repos"
                  THEN [polling EXCEPT !.cycles[p].pc = "getPollingState"]
                  ELSE Finally(polling, p)
    /\ UNCHANGED <<clock, oauth, oauthCalls, feed>>
    /\ UNCHANGED <<now, chat, swept, matching, webhook>>
    /\ UNCHANGED deliveryVars
    /\ UNCHANGED routerVars
    /\ UNCHANGED subscriptionVars

\* pollRepo: getPollingState answers the row, or null
GetPollingState(p) ==
    /\ polling.cycles[p].pc = "getPollingState"
    /\ polling' = [polling EXCEPT
                     !.cycles[p].pc = "fetchRepoEvents",
                     !.cycles[p].etag = polling.repoPollingState.etag,
                     !.cycles[p].lastEventId =
                        polling.repoPollingState.lastEventId]
    /\ UNCHANGED <<clock, oauth, oauthCalls, feed>>
    /\ UNCHANGED <<now, chat, swept, matching, webhook>>
    /\ UNCHANGED deliveryVars
    /\ UNCHANGED routerVars
    /\ UNCHANGED subscriptionVars

\* The update pollRepo makes when it has nothing to send
WithoutNewEvents(c, newEtag) ==
    [c EXCEPT !.pc = "updatePollingState",
              !.update = PollingRow(newEtag, Absent)]

\* pollRepo from the answer of fetchRepoEvents to its next await: the filter
\* of the events already seen
Filtered(c, events, newEtag) ==
    LET lastSeenIndex == findIndex(events, c.lastEventId)
        found == c.lastEventId # Absent /\ lastSeenIndex > 0
        newEvents == IF found THEN SubSeq(events, 1, lastSeenIndex - 1)
                     ELSE events
    IN  IF Len(events) = 0 \/ Len(newEvents) = 0
        THEN [WithoutNewEvents(c, newEtag) EXCEPT !.fetched = events,
                                                  !.found = found]
        ELSE [c EXCEPT !.pc = "getRepoSubscribers",
                       !.fetched = events,
                       !.events = events,
                       !.newEvents = newEvents,
                       !.aliased = ~found,
                       !.found = found,
                       !.newEtag = newEtag]

FetchOutcomes == {"throws", "notModified", "events"}

\* pollRepo: fetchRepoEvents throws, answers 304 to a request that carried an
\* ETag, or answers the newest events and an ETag
FetchRepoEvents(p, outcome) ==
    LET c == polling.cycles[p] IN
      /\ c.pc = "fetchRepoEvents"
      /\ outcome = "notModified" => c.etag # Absent
      /\ polling' =
           CASE outcome = "throws" -> Finally(polling, p)
             [] outcome = "notModified" ->
                  [polling EXCEPT !.cycles[p] = WithoutNewEvents(c, Absent)]
             [] OTHER ->
                  [polling EXCEPT
                     !.cycles[p] = Filtered(c, Page(feed), Len(feed) + 1)]
      /\ UNCHANGED <<clock, oauth, oauthCalls, feed>>
      /\ UNCHANGED <<now, chat, swept, matching, webhook>>
      /\ UNCHANGED deliveryVars
      /\ UNCHANGED routerVars
      /\ UNCHANGED subscriptionVars

\* The positions <<i, j>> of the sends still to make, after <<i, j>>: events
\* that formatEvent renders, each to every channel in turn
SendsAfter(c, i, j) ==
    {pos \in (1..Len(c.newEvents)) \X (1..Len(c.channels)) :
       /\ formatPolledEvent(c.newEvents[pos[1]]) # ""
       /\ pos[1] > i \/ (pos[1] = i /\ pos[2] > j)}

\* The cycle at its next send after <<i, j>>, or at the update that follows
\* the last one: lastEventId is events[0].id of the array as it is by then
Advance(c, i, j) ==
    LET rest == SendsAfter(c, i, j) IN
      IF rest = {}
      THEN [c EXCEPT !.pc = "updatePollingState",
                     !.update = PollingRow(c.newEtag, c.events[1].id)]
      ELSE LET next == CHOOSE pos \in rest :
                         \A q \in rest :
                           pos[1] < q[1] \/ (pos[1] = q[1] /\ pos[2] <= q[2])
           IN  [c EXCEPT !.pc = "sendMessage", !.i = next[1], !.j = next[2]]

\* newEvents.reverse() reversed a copy and left events alone
ReverseInPlace_Copy(c) == [c EXCEPT !.newEvents = reverse(c.newEvents)]

\* newEvents.reverse(): in place, so events is reversed with it when the two
\* names are the same array
ReverseInPlace(c) ==
    [c EXCEPT !.newEvents = reverse(c.newEvents),
              !.events = IF c.aliased THEN reverse(c.events) ELSE c.events]

\* pollRepo: getRepoSubscribers answers, the new events are reversed
GetRepoSubscribers(p, channels) ==
    LET c == polling.cycles[p] IN
      /\ c.pc = "getRepoSubscribers"
      /\ polling' =
           [polling EXCEPT
              !.cycles[p] =
                 Advance([ReverseInPlace(c) EXCEPT !.channels = channels],
                         0, 0)]
      /\ UNCHANGED <<clock, oauth, oauthCalls, feed>>
      /\ UNCHANGED <<now, chat, swept, matching, webhook>>
      /\ UNCHANGED deliveryVars
      /\ UNCHANGED routerVars
      /\ UNCHANGED subscriptionVars

Sent(channelId, id, poll) == [channelId |-> channelId, id |-> id, poll |-> poll]

\* pollRepo: sendMessageFn answers or throws; a throw is logged
SendMessage(p, ok) ==
    LET c == polling.cycles[p] IN
      /\ c.pc = "sendMessage"
      /\ polling' =
           [polling EXCEPT
              !.sent = IF ok
                       THEN Append(@, Sent(c.channels[c.j], c.newEvents[c.i].id,
                                           c.poll))
                       ELSE @,
              !.cycles[p] = Advance(c, c.i, c.j)]
      /\ UNCHANGED <<clock, oauth, oauthCalls, feed>>
      /\ UNCHANGED <<now, chat, swept, matching, webhook>>
      /\ UNCHANGED deliveryVars
      /\ UNCHANGED routerVars
      /\ UNCHANGED subscriptionVars

\* state.x ?? existing[0].x
Coalesce(value, existing) == IF value = Absent THEN existing ELSE value

\* updatePollingState: insert, or update with the fields given
updatePollingState(row, state) ==
    PollingRow(Coalesce(state.etag, row.etag),
               Coalesce(state.lastEventId, row.lastEventId))

\* pollRepo: updatePollingState, then poll()'s loop and its finally
UpdatePollingState(p) ==
    LET c == polling.cycles[p] IN
      /\ c.pc = "updatePollingState"
      /\ polling' =
           [Finally(polling, p) EXCEPT
              !.repoPollingState = updatePollingState(@, c.update)]
      /\ UNCHANGED <<clock, oauth, oauthCalls, feed>>
      /\ UNCHANGED <<now, chat, swept, matching, webhook>>
      /\ UNCHANGED deliveryVars
      /\ UNCHANGED routerVars
      /\ UNCHANGED subscriptionVars

\* GitHub records an event of the repository
NewEvent(kind) ==
    /\ Len(feed) < MaxFeed
    /\ feed' = Append(feed, GitHubEvent(Len(feed) + 1, kind))
    /\ UNCHANGED <<clock, oauth, oauthCalls, polling>>
    /\ UNCHANGED <<now, chat, swept, matching, webhook>>
    /\ UNCHANGED deliveryVars
    /\ UNCHANGED routerVars
    /\ UNCHANGED subscriptionVars

---------------------------------------------------------------------------
(* Initial states and specifications *)

Init ==
    /\ now = 0
    /\ messageMappings = {}
    /\ chat = <<>>
    /\ calls = [p \in Procs |-> IdleCall]
    /\ delivered = 0
    /\ eventThreads = {}
    /\ router = IdleRouter
    /\ swept = NeverSwept
    /\ matching = NoMatching
    /\ storage = EmptyStorage
    /\ command = NoCommand
    /\ webhook = NoWebhook
    /\ clock = 0
    /\ oauth = EmptyOAuth
    /\ oauthCalls = [p \in Procs |-> IdleOAuthCall]
    /\ polling = IdlePolling
    /\ feed = <<>>

\* Deliveries one after another
Next ==
    \/ \E params \in DeliveryParams : NoneInFlight /\ Begin("p1", params)
    \/ \E p \in Procs : Step(p)
    \/ cleanupExpired
    \/ Tick

Spec == Init /\ [][Next]_vars

---------------------------------------------------------------------------
(* Two webhook requests edit the same PR at once: their deliver() calls   *)
(* interleave at every await.                                              *)

\* The PR opened at updated_at 1, delivered to c1 as message 1
OpenedParams ==
    [spaceId |-> "s1", channelId |-> "c1", repoFullName |-> "r1",
     action |-> "create", entityContext |-> PrEntity(1), emits |-> TRUE]

\* deliver(edit) of that PR as of a later updated_at
EditedParams(ts) ==
    [OpenedParams EXCEPT !.action = "edit", !.entityContext = PrEntity(ts)]

LaterTimestamps == 2..(MaxTs + 1)

\* The edit deliveries of the PR that race
EditedDeliveries == {EditedParams(ts) : ts \in LaterTimestamps}

InitEdits ==
    /\ now = 0
    /\ messageMappings =
         storeMapping({}, "s1", "c1", "r1", PrEntity(1), 1, 0)
    /\ chat = <<[channelId |-> "c1", threadId |-> Absent,
                 message |-> formatter(OpenedParams, FALSE),
                 removed |-> FALSE]>>
    /\ calls = [p \in Procs |-> IdleCall]
    /\ delivered = 0
    /\ eventThreads = {}
    /\ router = IdleRouter
    /\ swept = NeverSwept
    /\ matching = NoMatching
    /\ storage = EmptyStorage
    /\ command = NoCommand
    /\ webhook = NoWebhook
    /\ clock = 0
    /\ oauth = EmptyOAuth
    /\ oauthCalls = [p \in Procs |-> IdleOAuthCall]
    /\ polling = IdlePolling
    /\ feed = <<>>

NextConc ==
    \/ \E p \in Procs, params \in EditedDeliveries : Begin(p, params)
    \/ \E p \in Procs : EditLookup(p)
    \/ \E p \in Procs : ShouldUpdate(p)
    \/ \E p \in Procs : Edit(p)
    \/ \E p \in Procs : StoreEdit(p)
    \/ \E p \in Procs : Return(p)

SpecConc == InitEdits /\ [][NextConc]_vars

\* The same edit deliveries made one after another: a deliver call begins
\* when the one before it has returned
NextSeq ==
    \/ \E p \in Procs, params \in EditedDeliveries :
         InFlight = {} /\ Begin(p, params)
    \/ \E p \in Procs : EditLookup(p)
    \/ \E p \in Procs : ShouldUpdate(p)
    \/ \E p \in Procs : Edit(p)
    \/ \E p \in Procs : StoreEdit(p)

SpecSeq == InitEdits /\ [][NextSeq]_vars

\* The router starts with no thread, or with the thread that an opened pull
\* request left in channel c1, or with that thread and a comment sent into it
OpenedThread ==
    [spaceId |-> "s1", channelId |-> "c1", repoFullName |-> "r1",
     anchorType |-> "pr", anchorNumber |-> 1, threadEventId |-> 1,
     createdAt |-> 0, expiresAt |-> DEFAULT_EXPIRY_DAYS]

OpenedMessage ==
    [channelId |-> "c1", threadId |-> Absent,
     message |-> Rendered(FALSE, FALSE), removed |-> FALSE]

\* The message of a comment on that pull request, sent into its thread
CommentMessage ==
    [channelId |-> "c1", threadId |-> OpenedThread.threadEventId,
     message |-> Rendered(FALSE, TRUE), removed |-> FALSE]

InitRouter ==
    /\ now = 0
    /\ messageMappings = {}
    /\ calls = [p \in Procs |-> IdleCall]
    /\ delivered = 0
    /\ router = IdleRouter
    /\ swept = NeverSwept
    /\ matching = NoMatching
    /\ storage = EmptyStorage
    /\ command = NoCommand
    /\ webhook = NoWebhook
    /\ clock = 0
    /\ oauth = EmptyOAuth
    /\ oauthCalls = [p \in Procs |-> IdleOAuthCall]
    /\ polling = IdlePolling
    /\ feed = <<>>
    /\ \/ eventThreads = {} /\ chat = <<>>
       \/ eventThreads = {OpenedThread} /\ chat = <<OpenedMessage>>
       \/ eventThreads = {OpenedThread}
          /\ chat = <<OpenedMessage, CommentMessage>>

SpecRouter == InitRouter /\ [][NextRouter]_vars

\* matchesBranchFilter on its own: a call with arguments from the sets above
InitFilter ==
    /\ now = 0
    /\ messageMappings = {}
    /\ chat = <<>>
    /\ calls = [p \in Procs |-> IdleCall]
    /\ delivered = 0
    /\ eventThreads = {}
    /\ router = IdleRouter
    /\ swept = NeverSwept
    /\ matching \in MatchingCalls
    /\ storage = EmptyStorage
    /\ command = NoCommand
    /\ webhook = NoWebhook
    /\ clock = 0
    /\ oauth = EmptyOAuth
    /\ oauthCalls = [p \in Procs |-> IdleOAuthCall]
    /\ polling = IdlePolling
    /\ feed = <<>>

NextFilter == MatchBranch

SpecFilter == InitFilter /\ [][NextFilter]_vars

\* A webhook handler on its own: a call with a payload from the set above
InitHandlers ==
    /\ now = 0
    /\ messageMappings = {}
    /\ chat = <<>>
    /\ calls = [p \in Procs |-> IdleCall]
    /\ delivered = 0
    /\ eventThreads = {}
    /\ router = IdleRouter
    /\ swept = NeverSwept
    /\ matching = NoMatching
    /\ storage = EmptyStorage
    /\ command = NoCommand
    /\ webhook \in WebhookCalls
    /\ clock = 0
    /\ oauth = EmptyOAuth
    /\ oauthCalls = [p \in Procs |-> IdleOAuthCall]
    /\ polling = IdlePolling
    /\ feed = <<>>

NextHandlers == OnWebhook

SpecHandlers == InitHandlers /\ [][NextHandlers]_vars

\* The /github command on a storage that starts empty
InitSubscriptions == Init

NextSubscriptions ==
    \E cmd \in SubscriptionCommands, isValid \in BOOLEAN :
      handleGithubSubscription(cmd, isValid)

SpecSubscriptions == InitSubscriptions /\ [][NextSubscriptions]_vars

\* The OAuth callback: state tokens issued, sent back, expired and swept
InitCallback == Init

NextCallback ==
    \/ \E townsUserId \in OAuthUsers : getAuthorizationUrl(townsUserId)
    \/ \E p \in Procs, state \in StateValues : handleCallback(p, state)
    \/ \E p \in Procs : ConsumeOAuthState(p)
    \/ \E p \in Procs : CheckState(p)
    \/ \E p \in Procs, ok \in BOOLEAN : CreateToken(p, ok)
    \/ cleanupExpiredStates
    \/ ClockTick

SpecCallback == InitCallback /\ [][NextCallback]_vars

\* Token refreshes, over every token table the users may have
InitRefresh ==
    /\ now = 0
    /\ messageMappings = {}
    /\ chat = <<>>
    /\ calls = [p \in Procs |-> IdleCall]
    /\ delivered = 0
    /\ eventThreads = {}
    /\ router = IdleRouter
    /\ swept = NeverSwept
    /\ matching = NoMatching
    /\ storage = EmptyStorage
    /\ command = NoCommand
    /\ webhook = NoWebhook
    /\ clock = 0
    /\ \E tokens \in [OAuthUsers -> TokenStates] :
         oauth = [EmptyOAuth EXCEPT !.githubUserTokens = tokens]
    /\ oauthCalls = [p \in Procs |-> IdleOAuthCall]
    /\ polling = IdlePolling
    /\ feed = <<>>

NextRefresh ==
    \/ \E p \in Procs, townsUserId \in OAuthUsers :
         refreshAccessToken(p, townsUserId)
    \/ \E k \in 1..MaxRefreshes, dbOk \in BOOLEAN :
         k <= Len(oauth.promises) /\ GetUserToken(k, dbOk)
    \/ \E k \in 1..MaxRefreshes, ok \in BOOLEAN :
         k <= Len(oauth.promises) /\ RefreshToken(k, ok)
    \/ \E k \in 1..MaxRefreshes : k <= Len(oauth.promises) /\ UpdateToken(k)
    \/ \E k \in 1..MaxRefreshes :
         k <= Len(oauth.promises) /\ DeleteUserToken(k)
    \/ \E p \in Procs : AwaitRefresh(p)
    \/ \E p \in Procs : RefreshReturn(p)

SpecRefresh == InitRefresh /\ [][NextRefresh]_vars

\* The polling service over one repository and GitHub's feed of it
InitPolling == Init

NextPolling ==
    \/ setSendMessageFunction
    \/ \E p \in Procs : start(p)
    \/ stop
    \/ \E p \in Procs : TimerFires(p)
    \/ \E p \in Procs, outcome \in RepoOutcomes : GetAllSubscribedRepos(p, outcome)
    \/ \E p \in Procs : GetPollingState(p)
    \/ \E p \in Procs, outcome \in FetchOutcomes : FetchRepoEvents(p, outcome)
    \/ \E p \in Procs, channels \in PolledChannelLists :
         GetRepoSubscribers(p, channels)
    \/ \E p \in Procs, ok \in BOOLEAN : SendMessage(p, ok)
    \/ \E p \in Procs : UpdatePollingState(p)
    \/ \E kind \in PolledKinds : NewEvent(kind)

SpecPolling == InitPolling /\ [][NextPolling]_vars

---------------------------------------------------------------------------
(* Properties of the delivery service *)

\* The rows of a table stored for the entity of a call
RowsOf(rows, prm) ==
    {r \in rows : SameKey(r, prm.spaceId, prm.channelId, prm.repoFullName,
                          prm.entityContext.githubEntityType,
                          prm.entityContext.githubEntityId)}

\* The rows stored for the parent anchor of the entity of a call
AnchorRowsOf(rows, prm) ==
    {r \in rows : SameKey(r, prm.spaceId, prm.channelId, prm.repoFullName,
                          prm.entityContext.parentType,
                          prm.entityContext.parentNumber)}

Live(rs, t) == {r \in rs : r.expiresAt > t}

\* The call has returned and is a deliver(action) with an entity context
DoneWith(c, action) ==
    /\ c.pc = "done"
    /\ c.params.action = action
    /\ c.params.entityContext.present

\* No store read of the call threw before its chat-boundary call
ReadsOk(c) == ~c.threw \/ c.ops # <<>>

StaleEdit(c) ==
    /\ DoneWith(c, "edit")
    /\ c.params.entityContext.githubUpdatedAt # Absent
    /\ \E r \in Live(RowsOf(c.pre, c.params), now) :
         /\ r.githubUpdatedAt # Absent
         /\ c.params.entityContext.githubUpdatedAt <= r.githubUpdatedAt

NewerEdit(c) ==
    /\ DoneWith(c, "edit")
    /\ ~c.message.empty
    /\ ReadsOk(c)
    /\ \E r \in Live(RowsOf(c.pre, c.params), now) :
         /\ r.githubUpdatedAt # Absent
         /\ c.params.entityContext.githubUpdatedAt > r.githubUpdatedAt

\* C3: an edit with a newer timestamp that renders a message calls the chat
\* boundary's edit exactly once, on the stored message id; when nothing throws,
\* the stored timestamp is the edit's afterwards.
C3_NewerEditApplied ==
    \A p \in Procs :
      LET c == calls[p] IN
        NewerEdit(c)
          => /\ Len(c.ops) = 1
             /\ c.ops[1].op = "edit"
             /\ \A r \in RowsOf(c.pre, c.params) :
                  c.ops[1].messageId = r.townsMessageId
             /\ c.ops[1].message = c.message
             /\ (~c.threw
                   => /\ RowsOf(messageMappings, c.params) # {}
                      /\ \A r \in RowsOf(messageMappings, c.params) :
                           r.githubUpdatedAt =
                             c.params.entityContext.githubUpdatedAt)

C3_Witness ==
    \E p \in Procs :
      /\ NewerEdit(calls[p])
      /\ ~calls[p].threw
      /\ Len(calls[p].ops) = 1
      /\ chat[calls[p].ops[1].messageId].message.body =
           calls[p].params.entityContext.githubUpdatedAt

\* A create for a follower whose anchor has no live mapping row
OrphanFollower(c) ==
    /\ DoneWith(c, "create")
    /\ NeedsThreadLookup(c.params.entityContext)
    /\ Live(AnchorRowsOf(c.pre, c.params), now) = {}
    /\ ReadsOk(c)

\* C5: a follower whose anchor mapping is missing or expired is rendered with
\* isThreadReply = FALSE and, when it renders a message, sent exactly once
\* with no thread id.
C5_OrphanFollowerSentTopLevel ==
    \A p \in Procs :
      LET c == calls[p] IN
        OrphanFollower(c)
          => /\ c.formatterArgs = <<FALSE>>
             /\ (c.params.emits
                   => /\ Len(c.ops) = 1
                      /\ c.ops[1].op = "send"
                      /\ c.ops[1].threadId = Absent
                      /\ c.ops[1].message.reply = FALSE)

\* ... here with an anchor row that has expired and was not swept
C5_Witness ==
    \E p \in Procs :
      LET c == calls[p] IN
        /\ OrphanFollower(c)
        /\ AnchorRowsOf(messageMappings, c.params) # {}
        /\ ~c.threw
        /\ c.eventId # Absent
        /\ chat[c.eventId].threadId = Absent

\* An edit of an anchor that has no live mapping row and renders a message
AnchorEditWithoutMapping(c) ==
    /\ DoneWith(c, "edit")
    /\ c.params.entityContext.isAnchor
    /\ Live(RowsOf(c.pre, c.params), now) = {}
    /\ ~c.message.empty
    /\ ReadsOk(c)

\* C6: an edit of an anchor without a live mapping sends one new top-level
\* message and, when the send answers with an event id and nothing throws,
\* stores one live row for the anchor with that id.
C6_RetroactiveAnchor ==
    \A p \in Procs :
      LET c == calls[p] IN
        AnchorEditWithoutMapping(c)
          => /\ Len(c.ops) = 1
             /\ c.ops[1].op = "send"
             /\ c.ops[1].threadId = Absent
             /\ (~c.threw /\ c.eventId # Absent
                   => /\ Cardinality(RowsOf(messageMappings, c.params)) = 1
                      /\ \A r \in RowsOf(messageMappings, c.params) :
                           /\ r.townsMessageId = c.eventId
                           /\ r.expiresAt > now)

C6_Witness ==
    \E p \in Procs :
      LET c == calls[p] IN
        /\ AnchorEditWithoutMapping(c)
        /\ ~c.threw
        /\ c.eventId # Absent
        /\ RowsOf(c.pre, c.params) = {}
        /\ RowsOf(messageMappings, c.params) # {}

\* C10: a lookup never answers with a row that has expired: the thread id and
\* the message id a call works with come from rows that expire after now, so
\* an expired anchor is no thread target and an expired entity is neither
\* edited nor removed.
C10_ExpiredRowNeverReturned ==
    \A p \in Procs :
      LET c == calls[p] IN
        /\ c.threadId # Absent
             => \E r \in AnchorRowsOf(c.pre, c.params) :
                  r.expiresAt > now /\ r.townsMessageId = c.threadId
        /\ c.existingMessageId # Absent
             => \E r \in RowsOf(c.pre, c.params) :
                  r.expiresAt > now /\ r.townsMessageId = c.existingMessageId
        /\ \A i \in 1..Len(c.ops) :
             c.ops[i].op \in {"edit", "remove"}
               => \E r \in RowsOf(c.pre, c.params) :
                    r.expiresAt > now /\ r.townsMessageId = c.ops[i].messageId

\* An expired row that no sweep has removed is passed over by an edit
C10_Witness ==
    \E p \in Procs :
      LET c == calls[p] IN
        /\ DoneWith(c, "edit")
        /\ ~c.params.entityContext.isAnchor
        /\ ~c.message.empty
        /\ ~c.threw
        /\ RowsOf(messageMappings, c.params) # {}
        /\ \A r \in RowsOf(messageMappings, c.params) : r.expiresAt < now
        /\ c.existingMessageId = Absent
        /\ c.ops = <<>>
\* Both callers have edited the PR, with different timestamps, and nothing
\* threw
BothEdited ==
    /\ \A p \in Procs :
         /\ calls[p].pc = "done"
         /\ ~calls[p].threw
         /\ Len(calls[p].ops) = 1
    /\ calls["p1"].params.entityContext.githubUpdatedAt
         # calls["p2"].params.entityContext.githubUpdatedAt

NewestEdit ==
    IF calls["p1"].params.entityContext.githubUpdatedAt
         > calls["p2"].params.entityContext.githubUpdatedAt
    THEN calls["p1"] ELSE calls["p2"]

\* C4: after two concurrent edits of one entity, both newer than the stored
\* timestamp, the stored timestamp is the newer one's and the chat message
\* shows the newer one's rendering.
C4_NewerEditWins ==
    BothEdited
      => /\ \A r \in RowsOf(messageMappings, NewestEdit.params) :
              r.githubUpdatedAt =
                NewestEdit.params.entityContext.githubUpdatedAt
         /\ chat[1].message = NewestEdit.message

---------------------------------------------------------------------------
(* Routing of comments, and the fan-out *)

\* The channels of the subscriber list that subscribe to exactly these types
SubscribedOnlyTo(eventTypes) ==
    {router.channels[i].channelId : i \in
        {j \in 1..Len(router.channels) :
            router.channels[j].eventTypes = eventTypes}}

InterestedIds ==
    {router.interested[i].channelId : i \in 1..Len(router.interested)}

Routed == router.status \in {"running", "returned"}

SendsTo(ch) ==
    {i \in 1..Len(router.tasks[ch].ops) : router.tasks[ch].ops[i].op = "send"}

PrConversationComment ==
    Routed /\ router.event.kind = "issue_comment" /\ router.event.isPr

IssueComment ==
    Routed /\ router.event.kind = "issue_comment" /\ ~router.event.isPr

\* C7: a PR conversation comment (an issue_comment event with the
\* pull_request marker) is routed to the channels subscribed only to
\* review_comments and to the channels subscribed only to comments.
C7_PrCommentReachesReviewCommentsChannel ==
    PrConversationComment =>
        /\ SubscribedOnlyTo({"review_comments"}) \subseteq InterestedIds
        /\ SubscribedOnlyTo({"comments"}) \subseteq InterestedIds

\* C8: a comment on an issue that is not a pull request is not routed to a
\* channel subscribed only to review_comments: the channel is not among the
\* interested channels and sendMessage is not called for it.
C8_IssueCommentSkipsReviewCommentsChannel ==
    IssueComment =>
        \A ch \in SubscribedOnlyTo({"review_comments"}) :
            /\ ch \notin InterestedIds
            /\ router.tasks[ch] = NoTask

C8_Witness ==
    /\ IssueComment
    /\ router.status = "returned"
    /\ "c2" \in SubscribedOnlyTo({"review_comments"})
    /\ "c1" \in SubscribedOnlyTo({"comments"})
    /\ SendsTo("c1") # {}
    /\ \E i \in 1..Len(chat) : chat[i].channelId = "c1"

\* The send of the channel's callback threw
SendThrew(ch) ==
    /\ router.tasks[ch].threw
    /\ SendsTo(ch) # {}
    /\ \E i \in SendsTo(ch) : ~router.tasks[ch].ops[i].ok

\* The callback ended before its send because its own thread lookup failed
LookupFailed(ch) ==
    router.tasks[ch].threw /\ router.tasks[ch].ops = <<>>

\* C9: when an event has three interested channels and sendMessage throws
\* for the second, then once processEvent has returned sendMessage was
\* called exactly once for the first and for the third (unless the
\* channel's own thread lookup failed); and processEvent throws only before
\* the fan-out starts, never because of a channel's callback.
C9_FanOutIsolation ==
    /\ router.status = "threw" =>
          \A ch \in RouterChannels : router.tasks[ch] = NoTask
    /\ ( /\ router.status = "returned"
         /\ Len(router.interested) = 3
         /\ SendThrew(router.interested[2].channelId) )
       => \A k \in {1, 3} :
            LET ch == router.interested[k].channelId
            IN  LookupFailed(ch) \/ Cardinality(SendsTo(ch)) = 1

C9_Witness ==
    /\ router.status = "returned"
    /\ Len(router.interested) = 3
    /\ SendThrew(router.interested[2].channelId)
    /\ \A k \in {1, 3} :
         LET ch == router.interested[k].channelId
         IN  /\ Cardinality(SendsTo(ch)) = 1
             /\ ~router.tasks[ch].threw
             /\ \E i \in 1..Len(chat) :
                  chat[i].channelId = ch /\ chat[i].message = router.tasks[ch].message


---------------------------------------------------------------------------
(* The sweep, the primary key, delete, and failures *)

\* What a sweep of a table must do: the rows that expired before now are
\* gone, the rows that expire after now are kept
SweepsExactlyExpired(before, after) ==
    \A r \in before :
        /\ r.expiresAt < now => r \notin after
        /\ r.expiresAt > now => r \in after

\* C11: a run of cleanupExpired (of the message mappings and of the event
\* threads) removes every row whose expiresAt is before now and removes no
\* row whose expiresAt is after now.
C11_SweepRemovesExactlyExpired ==
    [][ /\ cleanupExpired
           => SweepsExactlyExpired(messageMappings, messageMappings')
        /\ cleanupExpiredThreads
           => SweepsExactlyExpired(eventThreads, eventThreads') ]_vars

\* A sweep has removed an expired mapping and kept one, stored before the
\* sweep, that expires later
C11_Witness ==
    /\ swept.table = "message_mappings"
    /\ swept.count > 0
    /\ \E r \in messageMappings :
         r.createdAt < swept.at /\ r.expiresAt > swept.at


\* The five columns of the primary key of message_mappings
KeyOf(r) ==
    <<r.spaceId, r.channelId, r.repoFullName, r.githubEntityType,
      r.githubEntityId>>

\* C12: whatever deliveries have run (create, edit, delete, redeliveries) and
\* whatever has been swept, message_mappings holds at most one row per
\* (spaceId, channelId, repoFullName, githubEntityType, githubEntityId).
C12_OneRowPerIdentity ==
    \A r1, r2 \in messageMappings : KeyOf(r1) = KeyOf(r2) => r1 = r2

\* A create was delivered again for an identity stored at an earlier time:
\* the row of that time is still the only one and holds the new message
C12_Witness ==
    \E p \in Procs :
      LET c == calls[p] IN
        /\ DoneWith(c, "create")
        /\ ~c.threw
        /\ c.eventId # Absent
        /\ \E r \in RowsOf(messageMappings, c.params) :
             /\ r.createdAt < now
             /\ r.townsMessageId = c.eventId
             /\ r.expiresAt = now + MESSAGE_MAPPING_EXPIRY_DAYS


\* A deliver(delete) has returned and no store read of it threw
DeleteDone(c) == DoneWith(c, "delete") /\ ReadsOk(c)

\* C13: a deliver(delete) for an entity with a live mapping calls removeEvent
\* exactly once, with the stored message id, and when nothing throws the
\* entity's row is gone, the other rows are as before and a lookup of the
\* identity finds nothing; for an entity without a live mapping it makes no
\* chat call, changes no row and nothing is thrown.
C13_DeleteRemovesOnceOrNoop ==
    \A p \in Procs :
      LET c == calls[p]
          prm == c.params
          stored == Live(RowsOf(c.pre, prm), now)
      IN  DeleteDone(c) =>
            IF stored # {}
            THEN /\ Len(c.ops) = 1
                 /\ c.ops[1].op = "remove"
                 /\ \A r \in stored : c.ops[1].messageId = r.townsMessageId
                 /\ ~c.threw =>
                      /\ messageMappings = c.pre \ RowsOf(c.pre, prm)
                      /\ getMessageId(messageMappings, prm.spaceId,
                                      prm.channelId, prm.repoFullName,
                                      prm.entityContext.githubEntityType,
                                      prm.entityContext.githubEntityId,
                                      now) = Absent
            ELSE /\ c.ops = <<>>
                 /\ messageMappings = c.pre
                 /\ ~c.threw

\* A delete of a delivered comment has removed its message and its row, and
\* the row of the PR is still there
C13_Witness ==
    \E p \in Procs :
      LET c == calls[p] IN
        /\ DeleteDone(c)
        /\ ~c.threw
        /\ ~c.params.entityContext.isAnchor
        /\ Live(RowsOf(c.pre, c.params), now) # {}
        /\ RowsOf(messageMappings, c.params) = {}
        /\ Len(c.ops) = 1
        /\ chat[c.ops[1].messageId].removed


\* The last chat-boundary call of the delivery threw
ChatThrew(c) == c.ops # <<>> /\ ~c.ops[Len(c.ops)].ok

\* C14: no deliver call ends by throwing to its caller: a call in which the
\* chat boundary or the mapping store threw has returned all the same.
C14_DeliverNeverThrows ==
    \A p \in Procs :
        /\ calls[p].pc # "rejected"
        /\ calls[p].threw => calls[p].pc = "done"

\* A delivery whose sendMessage threw has returned
C14_Witness ==
    \E p \in Procs :
      LET c == calls[p] IN
        /\ c.pc = "done"
        /\ c.threw
        /\ ChatThrew(c)
        /\ c.ops[Len(c.ops)].op = "send"


---------------------------------------------------------------------------
(* matchesBranchFilter *)

Returned == matching.pc = "returned"

\* C15: matchesBranchFilter(branch, null, defaultBranch) is true exactly when
\* branch = defaultBranch, and matchesBranchFilter(branch, "all",
\* defaultBranch) is true for every branch.
C15_NullAndAllFilters ==
    Returned =>
        /\ matching.filter.isNull
             => (matching.result <=> matching.branch = matching.defaultBranch)
        /\ matching.filter = AllFilter => matching.result

\* A null filter has turned down a branch that is not the default branch
C15_Witness ==
    /\ Returned
    /\ matching.filter.isNull
    /\ matching.branch = BrMain
    /\ matching.defaultBranch = BrDevelop
    /\ ~matching.result

\* The tokens of a filter text: each stretch between commas (or the ends)
\* without its leading and trailing blanks
IsStretch(text, i, j) ==
    /\ i \in 1..(Len(text) + 1)
    /\ j \in (i - 1)..Len(text)
    /\ (i = 1 \/ text[i - 1] = ",")
    /\ (j = Len(text) \/ text[j + 1] = ",")
    /\ \A k \in i..j : text[k] # ","

IsToken(text, a, b) ==
    \E i \in 1..(Len(text) + 1), j \in 0..Len(text) :
        /\ IsStretch(text, i, j)
        /\ i <= a /\ b <= j
        /\ \A k \in (i..(a - 1)) \cup ((b + 1)..j) : text[k] = " "
        /\ a <= b => text[a] # " " /\ text[b] # " "
        /\ a > b => a = i /\ b = i - 1

Tokens(text) ==
    {SubSeq(text, a, b) : <<a, b>> \in
        {ab \in (1..(Len(text) + 1)) \X (0..Len(text)) :
            IsToken(text, ab[1], ab[2])}}

\* A branch matches a token with no star when they are equal, and a token
\* with one star when it starts with what is before the star, ends with
\* what is after it, and has no slash in between
GlobMatches(branch, token) ==
    LET stars == {k \in 1..Len(token) : token[k] = "*"}
    IN  IF stars = {} THEN branch = token
        ELSE \E k \in stars :
               LET before == SubSeq(token, 1, k - 1)
                   after == SubSeq(token, k + 1, Len(token))
                   m == Len(branch) - Len(after)
               IN  /\ Cardinality(stars) = 1
                   /\ Len(before) <= m
                   /\ SubSeq(branch, 1, Len(before)) = before
                   /\ SubSeq(branch, m + 1, Len(branch)) = after
                   /\ \A n \in (Len(before) + 1)..m : branch[n] # "/"

---------------------------------------------------------------------------
(* processEvent: the branch context, the delivery action, threads *)

\* processEvent was called for a branch-filterable event type without a
\* branch context
Misrouted ==
    /\ router.status # "idle"
    /\ router.args.eventType \in BRANCH_FILTERABLE_EVENTS
    /\ ~router.args.branchContext.present

\* C17: processEvent called for a branch-filterable event type (pr, commits,
\* ci, reviews, review_comments, branches) without a branch context throws,
\* without having asked for the subscribers and without a thread lookup or
\* a send for any channel.
C17_MissingBranchContextThrows ==
    Misrouted =>
        /\ router.status = "threw"
        /\ ~router.queried
        /\ \A ch \in RouterChannels : router.tasks[ch] = NoTask

\* A pull request event routed without its branch has been thrown back
C17_Witness ==
    /\ Misrouted
    /\ router.status = "threw"
    /\ router.args.eventType = "pr"
    /\ router.event.kind = "pull_request"
    /\ ~router.queried


\* The comment of the event was delivered to channel c1 before the event:
\* its message is the second one of the chat
CommentDelivered ==
    /\ Len(chat) >= 2
    /\ chat[2].channelId = CommentMessage.channelId
    /\ chat[2].threadId = CommentMessage.threadId

\* processEvent has returned from an issue_comment event with this action,
\* channel c1 was an interested channel and nothing failed in its callback
CommentRouted(action) ==
    /\ router.status = "returned"
    /\ router.event.kind = "issue_comment"
    /\ router.event.action = action
    /\ "c1" \in InterestedIds
    /\ ~router.tasks["c1"].threw

\* C18: the delivery follows the incoming action: for a deleted comment that
\* was delivered to a channel the chat message is removed; for an edited
\* comment that was delivered the existing chat message is edited in place
\* and no new message is sent; otherwise a message is sent.
C18_ActionChoosesDelivery ==
    /\ (CommentRouted("deleted") /\ CommentDelivered) => chat[2].removed
    /\ (CommentRouted("edited") /\ CommentDelivered) =>
          /\ SendsTo("c1") = {}
          /\ chat[2].message.body = Rendered(TRUE, TRUE).body
    /\ CommentRouted("created") => Cardinality(SendsTo("c1")) = 1

---------------------------------------------------------------------------
(* Threads *)

\* A create for a follower whose anchor had a live mapping row when deliver
\* was called
ThreadedFollower(c) ==
    /\ DoneWith(c, "create")
    /\ NeedsThreadLookup(c.params.entityContext)
    /\ Live(AnchorRowsOf(c.pre, c.params), now) # {}
    /\ ReadsOk(c)

\* The thread rows of the anchor of the event being routed, for a channel
AnchorThreadsOf(rows, ch) ==
    {r \in rows : /\ r.channelId = ch
                  /\ r.anchorType = router.args.threadingContext.anchorType
                  /\ r.anchorNumber =
                       router.args.threadingContext.anchorNumber
                  /\ r.expiresAt >= now}

\* C20: once an anchor create has been delivered, a later follower create for
\* the same PR or issue in the same space, channel and repository, made while
\* the anchor's mapping is neither expired nor deleted, is rendered with
\* isThreadReply = TRUE and sent with the anchor's chat message id as its
\* thread id.  The second conjunct states the same of the router's follow-up
\* events and its thread rows.
C20_FollowerThreadsUnderAnchor ==
    /\ \A p \in Procs :
         LET c == calls[p] IN
           ThreadedFollower(c)
             => /\ c.formatterArgs = <<TRUE>>
                /\ (c.params.emits
                      => /\ Len(c.ops) = 1
                         /\ c.ops[1].op = "send"
                         /\ c.ops[1].message.reply = TRUE
                         /\ \A r \in Live(AnchorRowsOf(c.pre, c.params), now) :
                              c.ops[1].threadId = r.townsMessageId)
    /\ \A ch \in RouterChannels :
         LET task == router.tasks[ch] IN
           (IsFollowUp(router.args) /\ task.ops # <<>>
              /\ AnchorThreadsOf(eventThreads, ch) # {})
             => /\ task.formatterArgs = <<TRUE>>
                /\ task.ops[1].message.reply = TRUE
                /\ \A r \in AnchorThreadsOf(eventThreads, ch) :
                     task.ops[1].threadId = r.threadEventId

\* ... here the follower's message is in the chat, in the anchor's thread
C20_Witness ==
    \E p \in Procs :
      LET c == calls[p] IN
        /\ ThreadedFollower(c)
        /\ ~c.threw
        /\ c.eventId # Absent
        /\ chat[c.eventId].threadId # Absent
        /\ chat[c.eventId].threadId \in
             {r.townsMessageId : r \in AnchorRowsOf(c.pre, c.params)}
        /\ chat[c.eventId].message.reply

\* ... and here the router has sent a follow-up into its anchor's thread
C20_RouterReached ==
    \E ch \in RouterChannels :
      /\ IsFollowUp(router.args)
      /\ router.tasks[ch].eventId # Absent
      /\ chat[router.tasks[ch].eventId].threadId \in
           {r.threadEventId : r \in AnchorThreadsOf(eventThreads, ch)}

---------------------------------------------------------------------------
(* The /github command *)

\* The step handles "unsubscribe <repo>" typed in a channel
UnsubscribesFrom(ch, repo) ==
    /\ command'.channelId = ch
    /\ Len(command'.args) = 2
    /\ toLowerCase(command'.args[1]) = "unsubscribe"
    /\ stripMarkdown(command'.args[2]) = repo

\* The repositories a channel is subscribed to
ReposOf(st, ch) ==
    IF MapHas(st.channelToRepos, ch) THEN st.channelToRepos[ch] ELSE {}

\* The channels subscribed to a repository
ChannelsOf(st, repo) ==
    IF MapHas(st.repoToChannels, repo) THEN st.repoToChannels[repo] ELSE {}

\* C19: "unsubscribe owner/repo" removes only that repository from the
\* channel's subscriptions: every other repository of the channel stays in
\* channelToRepos and keeps the channel in its repoToChannels set.
C19_UnsubscribeKeepsOtherRepos ==
    [][\A ch \in SubscriptionChannels, repo \in {RepoA, RepoB} :
         UnsubscribesFrom(ch, repo)
           => \A other \in ReposOf(storage, ch) \ {repo} :
                /\ other \in ReposOf(storage', ch)
                /\ ch \in ChannelsOf(storage', other)]_vars

---------------------------------------------------------------------------
(* Failures at the chat boundary, and deliveries that do nothing *)

\* The call has returned after its chat-boundary call of one of these kinds
\* threw
ChatCallThrew(c, kinds) ==
    /\ c.pc = "done"
    /\ c.ops # <<>>
    /\ c.ops[Len(c.ops)].op \in kinds
    /\ ~c.ops[Len(c.ops)].ok

\* C21: when sendMessage or editMessage throws during a create or edit
\* delivery, the mapping table is what it was when deliver was called: no row
\* was created and an existing row kept its message id, githubUpdatedAt and
\* expiresAt.
C21_ThrowLeavesMappings ==
    \A p \in Procs :
      LET c == calls[p] IN
        (c.params.action \in {"create", "edit"}
           /\ ChatCallThrew(c, {"send", "edit"}))
          => messageMappings = c.pre

\* ... here editMessage threw for an entity that has a row
C21_Witness ==
    \E p \in Procs :
      LET c == calls[p] IN
        /\ c.params.action = "edit"
        /\ ChatCallThrew(c, {"edit"})
        /\ c.threw
        /\ RowsOf(messageMappings, c.params) # {}
        /\ \E r \in RowsOf(messageMappings, c.params) :
             r.githubUpdatedAt # c.params.entityContext.githubUpdatedAt

\* C29: a deliver call makes at most one sendMessage, editMessage or
\* removeEvent call, also when that call throws.
C29_AtMostOneChatCall ==
    \A p \in Procs : Len(calls[p].ops) <= 1

\* ... here the one call threw and deliver returned
C29_Witness ==
    \E p \in Procs :
      /\ ChatCallThrew(calls[p], {"send", "edit", "remove"})
      /\ calls[p].threw
      /\ Len(calls[p].ops) = 1

\* An edit of a follower that has no live mapping row
FollowerEditWithoutMapping(c) ==
    /\ DoneWith(c, "edit")
    /\ ~c.params.entityContext.isAnchor
    /\ Live(RowsOf(c.pre, c.params), now) = {}

\* C22: an edit of a non-anchor entity that has no live mapping does
\* nothing: no sendMessage, editMessage or removeEvent call is made and the
\* mapping table is left as it was.
C22_FollowerEditWithoutMappingIsNoop ==
    \A p \in Procs :
      LET c == calls[p] IN
        FollowerEditWithoutMapping(c)
          => /\ c.ops = <<>>
             /\ messageMappings = c.pre

\* ... here the edit rendered a message, every read succeeded, and an expired
\* row of the entity was still in the table
C22_Witness ==
    \E p \in Procs :
      LET c == calls[p] IN
        /\ FollowerEditWithoutMapping(c)
        /\ ~c.message.empty
        /\ ~c.threw
        /\ c.ops = <<>>
        /\ RowsOf(messageMappings, c.params) # {}

\* An edit without githubUpdatedAt of an entity that has a live mapping row,
\* rendering a message
UntimedEdit(c) ==
    /\ DoneWith(c, "edit")
    /\ c.params.entityContext.githubUpdatedAt = Absent
    /\ Live(RowsOf(c.pre, c.params), now) # {}
    /\ ~c.message.empty
    /\ ReadsOk(c)

\* C30: an edit that carries no githubUpdatedAt, for an entity with a live
\* mapping, is not checked for staleness: editMessage is called on the mapped
\* message whatever timestamp is stored.
C30_UntimedEditIsApplied ==
    \A p \in Procs :
      LET c == calls[p] IN
        UntimedEdit(c)
          => /\ Len(c.ops) = 1
             /\ c.ops[1].op = "edit"
             /\ \A r \in Live(RowsOf(c.pre, c.params), now) :
                  c.ops[1].messageId = r.townsMessageId

\* ... here the stored row carried a timestamp and the message was edited
C30_Witness ==
    \E p \in Procs :
      LET c == calls[p] IN
        /\ UntimedEdit(c)
        /\ \E r \in RowsOf(c.pre, c.params) : r.githubUpdatedAt # Absent
        /\ Len(c.ops) = 1
        /\ c.ops[1].ok
        /\ chat[c.ops[1].messageId].message = c.message

---------------------------------------------------------------------------
(* Expiry of the mapping rows *)

\* C24: every upsert of a mapping row (a first create, a redelivered create,
\* a successful edit) sets its expiresAt to the time of the upsert plus
\* MESSAGE_MAPPING_EXPIRY_DAYS, which is 30, and every stored row has
\* expiresAt > createdAt.
C24_UpsertSlidesExpiry ==
    /\ [](/\ MESSAGE_MAPPING_EXPIRY_DAYS = 30
          /\ \A r \in messageMappings : r.expiresAt > r.createdAt)
    /\ [][\A r \in messageMappings' \ messageMappings :
             r.expiresAt = now + MESSAGE_MAPPING_EXPIRY_DAYS]_vars

\* ... here an edit has upserted a row that was created earlier
C24_Witness ==
    \E p \in Procs :
      LET c == calls[p] IN
        /\ DoneWith(c, "edit")
        /\ ~c.threw
        /\ Len(c.ops) = 1
        /\ c.ops[1].op = "edit"
        /\ \E r \in RowsOf(messageMappings, c.params) :
             /\ r.createdAt < now
             /\ r.expiresAt = now + MESSAGE_MAPPING_EXPIRY_DAYS
             /\ r \notin c.pre

---------------------------------------------------------------------------
(* Events that reach no channel, and events that render nothing *)

\* The subscriber passes the event-type filter and, for an event with a
\* branch context, the branch filter
Passes(ch) ==
    /\ router.args.eventType \in ch.eventTypes
    /\ router.args.branchContext.present
         => matchesBranchFilter(router.args.branchContext.branch,
                                ch.branchFilter, router.event.defaultBranch)

\* processEvent has got the subscribers of the repository and none passes
NoChannelPasses ==
    /\ router.status \in {"running", "returned"}
    /\ \A i \in 1..Len(router.channels) : ~Passes(router.channels[i])

\* C25: when no subscribed channel passes the event-type filter and the
\* branch filter, processEvent returns without an error, no callback is
\* started, so nothing is sent, and no table is written.
C25_NoInterestedChannelIsQuiet ==
    /\ [](NoChannelPasses
            => /\ router.status = "returned"
               /\ \A ch \in RouterChannels : router.tasks[ch] = NoTask)
    /\ [][(router' # router /\ NoChannelPasses')
            => UNCHANGED <<chat, eventThreads, messageMappings>>]_vars

\* ... here one subscriber fails the event-type filter and another one the
\* branch filter
C25_Witness ==
    /\ NoChannelPasses
    /\ router.status = "returned"
    /\ \E i \in 1..Len(router.channels) :
         router.args.eventType \notin router.channels[i].eventTypes
    /\ \E i \in 1..Len(router.channels) :
         router.args.eventType \in router.channels[i].eventTypes

\* A create or edit delivery whose formatter was called and returned ""
RenderedNothing(c) ==
    /\ c.pc = "done"
    /\ c.params.action \in {"create", "edit"}
    /\ c.formatterArgs # <<>>
    /\ c.message.empty

\* C26: when the formatter returns the empty string, a create or edit
\* delivery calls neither sendMessage nor editMessage and leaves the mapping
\* table as it was.  The second conjunct states the same of the router's
\* callbacks: no sendMessage and no thread row.
C26_EmptyMessageIsNotDelivered ==
    /\ \A p \in Procs :
         LET c == calls[p] IN
           RenderedNothing(c)
             => /\ c.ops = <<>>
                /\ messageMappings = c.pre
    /\ \A ch \in RouterChannels :
         LET task == router.tasks[ch] IN
           (task.formatterArgs # <<>> /\ task.message.empty)
             => /\ task.ops = <<>>
                /\ task.pc = "done"

\* ... here it is an edit of an entity that has a live row
C26_Witness ==
    \E p \in Procs :
      LET c == calls[p] IN
        /\ RenderedNothing(c)
        /\ c.params.action = "edit"
        /\ ~c.threw
        /\ Live(RowsOf(messageMappings, c.params), now) # {}

\* ... and here a callback of the router has rendered nothing
C26_RouterReached ==
    \E ch \in RouterChannels :
      /\ router.tasks[ch].formatterArgs # <<>>
      /\ router.tasks[ch].message.empty
      /\ router.tasks[ch].pc = "done"

---------------------------------------------------------------------------
(* Anchors and followers *)

\* C27: a pull_request or issues event is an anchor exactly when its action
\* is "opened"; issue comments, reviews and review comments are followers
\* whose parent is the PR or issue number of the payload; the parent of an
\* issue comment is a PR exactly when the payload's issue carries the
\* pull_request marker, and an issue otherwise.
C27_AnchorsAndFollowers ==
    webhook.pc = "returned"
      => LET event == webhook.event
             tc == webhook.args.threadingContext
         IN  /\ event.kind \in {"pull_request", "issues"}
                  => /\ tc.present
                     /\ tc.isAnchor <=> event.action = "opened"
                     /\ tc.anchorNumber = event.number
                     /\ tc.anchorType =
                          (IF event.kind = "issues" THEN "issue" ELSE "pr")
             /\ event.kind \in {"issue_comment", "pull_request_review",
                                 "pull_request_review_comment"}
                  => /\ tc.present
                     /\ ~tc.isAnchor
                     /\ tc.anchorNumber = event.number
             /\ event.kind = "issue_comment"
                  => tc.anchorType = (IF event.isPr THEN "pr" ELSE "issue")
             /\ event.kind \in {"pull_request_review",
                                 "pull_request_review_comment"}
                  => tc.anchorType = "pr"

\* ... here a comment on PR 2 has been handled
C27_Witness ==
    /\ webhook.pc = "returned"
    /\ webhook.event.kind = "issue_comment"
    /\ webhook.event.isPr
    /\ webhook.event.number = 2
    /\ webhook.args.threadingContext.anchorType = "pr"
    /\ webhook.args.threadingContext.anchorNumber = 2

---------------------------------------------------------------------------
(* Channels are independent *)

\* The rows of the other spaces and channels
RowsElsewhere(rows, prm) ==
    {r \in rows : r.spaceId # prm.spaceId \/ r.channelId # prm.channelId}

\* The deliver call of p takes a step
StepOf(p) == calls'[p] # calls[p]

\* The parameters of the deliver call that takes the step
ParamsOfStep(p) ==
    IF calls[p].pc = "idle" THEN calls'[p].params ELSE calls[p].params

\* C28: a deliver call for a channel reads and writes only the mapping rows
\* of its space and channel: its steps leave the rows of every other channel
\* as they are, and the messages it replies to, edits or removes are
\* messages of its own channel.
C28_ChannelsAreIndependent ==
    /\ [][\A p \in Procs :
             StepOf(p)
               => RowsElsewhere(messageMappings', ParamsOfStep(p))
                    = RowsElsewhere(messageMappings, ParamsOfStep(p))]_vars
    /\ [](\A p \in Procs :
            \A i \in 1..Len(calls[p].ops) :
              LET op == calls[p].ops[i] IN
                /\ op.threadId # Absent
                     => chat[op.threadId].channelId
                          = calls[p].params.channelId
                /\ (op.op \in {"edit", "remove"} /\ op.messageId # Absent)
                     => chat[op.messageId].channelId
                          = calls[p].params.channelId)

\* ... here the PR has a row and a message in each of two channels, and the
\* second one was delivered while the first one's row was there
C28_Witness ==
    \E p \in Procs :
      LET c == calls[p] IN
        /\ c.pc = "done"
        /\ ~c.threw
        /\ RowsElsewhere(c.pre, c.params) # {}
        /\ RowsElsewhere(messageMappings, c.params)
             = RowsElsewhere(c.pre, c.params)
        /\ \E r \in RowsOf(messageMappings, c.params) :
             \E o \in RowsElsewhere(messageMappings, c.params) :
               /\ o.githubEntityType = r.githubEntityType
               /\ o.githubEntityId = r.githubEntityId
               /\ o.townsMessageId # r.townsMessageId

---------------------------------------------------------------------------
(* Edits that arrive out of order *)

\* Two edits of the PR with different timestamps have been delivered one
\* after the other, and nothing threw
SequenceDone ==
    /\ \A p \in Procs : calls[p].pc = "done" /\ ~calls[p].threw
    /\ calls["p1"].params.entityContext.githubUpdatedAt
         # calls["p2"].params.entityContext.githubUpdatedAt

\* C23: after edits with pairwise distinct timestamps of one entity with a
\* live mapping, delivered one after another in any order, the stored
\* githubUpdatedAt is the largest of the timestamps and the chat message
\* shows the edit that carries it, which was applied.
C23_LastWriterWinsInAnyOrder ==
    SequenceDone
      => /\ \A r \in RowsOf(messageMappings, NewestEdit.params) :
              r.githubUpdatedAt =
                NewestEdit.params.entityContext.githubUpdatedAt
         /\ RowsOf(messageMappings, NewestEdit.params) # {}
         /\ chat[1].message = NewestEdit.message
         /\ Len(NewestEdit.ops) = 1
         /\ NewestEdit.ops[1].op = "edit"

\* ... here the newer edit arrived first and the older one was skipped
C23_Witness ==
    /\ SequenceDone
    /\ \E p \in Procs : calls[p] # NewestEdit /\ calls[p].ops = <<>>
    /\ chat[1].message = NewestEdit.message

---------------------------------------------------------------------------
(* What a delivery leaves in the table *)

\* C38: when removeEvent throws during a delete delivery, the entity's
\* mapping row stays as it was, so the lookup of a redelivered delete finds
\* the same message again.
C38_FailedRemoveKeepsMapping ==
    \A p \in Procs :
      LET c == calls[p]
          prm == c.params
      IN  (prm.action = "delete" /\ ChatCallThrew(c, {"remove"}))
            => /\ messageMappings = c.pre
               /\ RowsOf(messageMappings, prm) # {}
               /\ getMessageId(messageMappings, prm.spaceId, prm.channelId,
                               prm.repoFullName,
                               prm.entityContext.githubEntityType,
                               prm.entityContext.githubEntityId, now)
                    = c.ops[1].messageId

\* ... here the message is still in the chat as well
C38_Witness ==
    \E p \in Procs :
      LET c == calls[p] IN
        /\ c.params.action = "delete"
        /\ ChatCallThrew(c, {"remove"})
        /\ c.threw
        /\ ~chat[c.ops[1].messageId].removed
        /\ \E r \in RowsOf(messageMappings, c.params) :
             r.townsMessageId = c.ops[1].messageId

\* An edit of an entity that had a live mapping row when deliver was called
EditWithMapping(c) ==
    /\ DoneWith(c, "edit")
    /\ Live(RowsOf(c.pre, c.params), now) # {}

\* The chat message ids stored for the entity of a call
StoredIds(rows, prm) == {r.townsMessageId : r \in RowsOf(rows, prm)}

\* C39: an edit of an entity with a live mapping sends no new chat message,
\* and the message id stored for the entity after it is the one stored
\* before it.
C39_EditKeepsMessageId ==
    \A p \in Procs :
      LET c == calls[p] IN
        EditWithMapping(c)
          => /\ \A i \in 1..Len(c.ops) : c.ops[i].op # "send"
             /\ StoredIds(messageMappings, c.params)
                  = StoredIds(c.pre, c.params)

\* ... here the edit was applied and its row upserted
C39_Witness ==
    \E p \in Procs :
      LET c == calls[p] IN
        /\ EditWithMapping(c)
        /\ ~c.threw
        /\ Len(c.ops) = 1
        /\ c.ops[1].op = "edit"
        /\ messageMappings # c.pre
        /\ StoredIds(messageMappings, c.params) = {c.ops[1].messageId}

\* C37: the githubUpdatedAt stored for an entity never decreases over create
\* and edit deliveries for it, a redelivered create with an older timestamp
\* included.
C37_StoredTimestampNeverDecreases ==
    [][\A r \in messageMappings, s \in messageMappings' :
         (KeyOf(r) = KeyOf(s)
            /\ r.githubUpdatedAt # Absent /\ s.githubUpdatedAt # Absent)
           => s.githubUpdatedAt >= r.githubUpdatedAt]_vars

\* C36: after any sequence of subscribe and unsubscribe commands the two
\* maps agree: a repository is in channelToRepos[c] exactly when c is in
\* repoToChannels[r].
C36_MapsAreConsistent ==
    /\ \A ch \in DOMAIN storage.channelToRepos :
         \A repo \in storage.channelToRepos[ch] :
           ch \in ChannelsOf(storage, repo)
    /\ \A repo \in DOMAIN storage.repoToChannels :
         \A ch \in storage.repoToChannels[repo] :
           repo \in ReposOf(storage, ch)

\* ... here a channel has unsubscribed from a repository that another
\* channel is still subscribed to
C36_Witness ==
    /\ command.reply.kind = "unsubscribedAll"
    /\ ReposOf(storage, command.channelId) = {}
    /\ \E repo \in DOMAIN storage.repoToChannels :
         /\ storage.repoToChannels[repo] # {}
         /\ command.channelId \notin storage.repoToChannels[repo]

---------------------------------------------------------------------------
(* One delivery per interested channel *)

\* The subscriber wants PR conversation comments: it has the comments tag or
\* the review_comments tag
WantsPrComments(sub) ==
    sub.eventTypes \cap {"comments", "review_comments"} # {}

\* C31: for one created comment on a PR, a channel subscribed to comments,
\* to review_comments or to both gets exactly one delivery, and a channel
\* subscribed to neither gets none.
C31_OneDeliveryPerInterestedChannel ==
    (PrConversationComment /\ router.status = "returned"
       /\ router.event.action = "created")
      => \A i \in 1..Len(router.channels) :
           LET sub == router.channels[i]
               ch == sub.channelId
           IN  Cardinality(SendsTo(ch)) =
                 (IF WantsPrComments(sub) /\ ~LookupFailed(ch) THEN 1 ELSE 0)

---------------------------------------------------------------------------
(* Properties of the OAuth service *)

\* The handleCallback call has the answer of consumeOAuthState
Consumed(c) ==
    c.op = "handleCallback" /\ c.pc \notin {"idle", "consumeOAuthState"}

\* consumeOAuthState answered the call with the state record
Obtained(c) == Consumed(c) /\ c.stateData # NoStateData

\* The call went on to the token exchange
Exchanging(c) ==
    \/ c.pc = "createToken"
    \/ c.result = "linked"
    \/ c.error = "token exchange failed"

\* C32: an OAuth state token is single-use. Of two handleCallback calls with
\* the same state value, one after the other or overlapping, at most one
\* obtains the state record; only a call that obtained it goes on to the token
\* exchange, so at most one createToken is made per state value; a call that
\* did not obtain it fails with "Invalid or expired state parameter".
C32_StateIsSingleUse ==
    /\ \A p, q \in Procs :
         (p # q /\ oauthCalls[p].state = oauthCalls[q].state)
           => ~(Obtained(oauthCalls[p]) /\ Obtained(oauthCalls[q]))
    /\ \A p \in Procs :
         LET c == oauthCalls[p] IN
           /\ Exchanging(c) => Obtained(c)
           /\ (Consumed(c) /\ ~Obtained(c) /\ c.pc = "done")
                => (c.error = InvalidState /\ c.result = "none")
    /\ \A s \in StateValues :
         Cardinality({i \in 1..Len(oauth.tokenExchanges) :
                        oauth.tokenExchanges[i] = s}) <= 1

\* Two calls with the same state value have returned: one linked the account,
\* the other was refused
C32_Witness ==
    \E p, q \in Procs :
      /\ p # q
      /\ oauthCalls[p].state = oauthCalls[q].state
      /\ oauthCalls[p].pc = "done" /\ oauthCalls[p].result = "linked"
      /\ oauthCalls[q].pc = "done" /\ oauthCalls[q].error = InvalidState

\* The runs of doRefreshAccessToken for a user that have not settled
Unsettled(townsUserId) ==
    {k \in 1..Len(oauth.promises) :
       /\ oauth.promises[k].townsUserId = townsUserId
       /\ oauth.promises[k].pc # "settled"}

\* The refreshToken calls to GitHub that are out for a user
Outstanding(townsUserId) ==
    {k \in Unsettled(townsUserId) : oauth.promises[k].pc = "refreshToken"}

\* The call awaits the promise it set in refreshPromises
OwnerAwaits(c, k) == c.pc = "await" /\ c.owner /\ c.promise = k

RefreshDeduplicated ==
    /\ \A u \in OAuthUsers :
         /\ Cardinality(Unsettled(u)) <= 1
         /\ Cardinality(Outstanding(u)) <= 1
         /\ Unsettled(u) # {} => oauth.refreshPromises[u] \in Unsettled(u)
         /\ oauth.refreshPromises[u] # Absent
              => \E p \in Procs :
                   /\ OwnerAwaits(oauthCalls[p], oauth.refreshPromises[u])
                   /\ oauthCalls[p].townsUserId = u
    /\ \A p \in Procs :
         LET c == oauthCalls[p] IN
           (c.op = "refreshAccessToken" /\ c.pc = "done")
             => /\ c.result = oauth.promises[c.promise].result
                /\ c.owner => oauth.refreshPromises[c.townsUserId] # c.promise

JoinsInFlight ==
    \A p \in Procs, u \in OAuthUsers :
      (/\ oauthCalls[p].pc = "idle"
       /\ oauthCalls'[p].pc = "await"
       /\ oauthCalls'[p].townsUserId = u
       /\ Unsettled(u) # {})
        => /\ oauthCalls'[p].promise \in Unsettled(u)
           /\ ~oauthCalls'[p].owner
           /\ oauth' = oauth

\* C33: while a token refresh of a user is in flight, a further
\* refreshAccessToken for that user starts nothing and awaits the promise in
\* flight, whose result it returns; so a user has at most one run of
\* doRefreshAccessToken unsettled and at most one refreshToken call out at
\* GitHub. The refreshPromises entry is there only while the call that set it
\* awaits, and is gone once that call has returned, whatever the result.
C33_OneRefreshInFlightPerUser ==
    []RefreshDeduplicated /\ [][JoinsInFlight]_vars

\* Two calls for one user have returned the result of one refresh that GitHub
\* answered, and the entry is gone
C33_Witness ==
    \E p, q \in Procs :
      /\ p # q
      /\ oauthCalls[p].pc = "done" /\ oauthCalls[q].pc = "done"
      /\ oauthCalls[p].owner /\ ~oauthCalls[q].owner
      /\ oauthCalls[p].townsUserId = oauthCalls[q].townsUserId
      /\ oauthCalls[p].promise = oauthCalls[q].promise
      /\ oauthCalls[p].result = "token" /\ oauthCalls[q].result = "token"
      /\ oauth.refreshPromises[oauthCalls[p].townsUserId] = Absent

---------------------------------------------------------------------------
(* Properties of the polling service *)

\* The slots whose poll cycle is past the two guards and has not ended
Cycling(pol) == {p \in Procs : pol.cycles[p].pc # "idle"}

OneCycle ==
    /\ Cardinality(Cycling(polling)) <= 1
    /\ polling.isPolling <=> Cycling(polling) # {}

\* A poll() that finds a cycle in progress touches nothing but the log, and
\* a cycle that ends leaves isPolling false
SkipsAndResets ==
    /\ (polling.isPolling /\ polling.lastPoll # "skipped"
          /\ polling'.lastPoll = "skipped")
         => /\ polling'.cycles = polling.cycles
            /\ polling'.polls = polling.polls
            /\ polling'.sent = polling.sent
            /\ polling'.repoPollingState = polling.repoPollingState
            /\ polling'.isPolling
    /\ \A p \in Procs :
         (p \in Cycling(polling) /\ p \notin Cycling(polling'))
           => ~polling'.isPolling

\* C34: at most one poll cycle runs at a time. isPolling is true exactly while
\* a cycle is in progress; a poll() called by start or by the timer meanwhile
\* returns without starting a cycle or polling a repository; when a cycle ends,
\* by finishing, by an error or by finding no subscribed repository, isPolling
\* is false.
C34_OnePollCycleAtATime == []OneCycle /\ [][SkipsAndResets]_vars

\* A poll() was skipped because a cycle was in progress, and that cycle has
\* since ended
C34_Witness ==
    /\ polling.lastPoll = "skipped"
    /\ polling.polls > 0
    /\ Cycling(polling) = {}
    /\ ~polling.isPolling

\* The place of an event id in a fetched list (1 is the newest), 0 for none
PlaceIn(events, id) == findIndex(events, id)

\* Within a cycle whose stored lastEventId is in the fetched list, what has
\* been sent is strictly newer than it; and the sends of one cycle go from
\* the oldest event to the newest
SendsNewerOldestFirst ==
    /\ \A p \in Procs :
         LET c == polling.cycles[p] IN
           c.found =>
             \A i \in 1..Len(polling.sent) :
               polling.sent[i].poll = c.poll
                 => /\ PlaceIn(c.fetched, polling.sent[i].id) > 0
                    /\ PlaceIn(c.fetched, polling.sent[i].id)
                         < PlaceIn(c.fetched, c.lastEventId)
    /\ \A i, j \in 1..Len(polling.sent) :
         (i < j /\ polling.sent[i].poll = polling.sent[j].poll)
           => polling.sent[i].id <= polling.sent[j].id

\* A cycle whose stored lastEventId is in the fetched list ends with the id
\* of the newest fetched event stored
StoresNewestFetched ==
    \A p \in Procs :
      LET c == polling.cycles[p] IN
        (c.found /\ c.pc = "updatePollingState" /\ polling'.cycles[p].pc = "idle")
          => polling'.repoPollingState.lastEventId = c.fetched[1].id

\* A send of such a cycle is of an event the channel has not been sent before
NotSentBefore ==
    \A p \in Procs :
      LET c == polling.cycles[p] IN
        (c.found /\ c.pc = "sendMessage"
           /\ Len(polling'.sent) = Len(polling.sent) + 1)
          => \A i \in 1..Len(polling.sent) :
               ~(/\ polling.sent[i].channelId = c.channels[c.j]
                 /\ polling.sent[i].id = c.newEvents[c.i].id)

\* The three parts of C35 that concern one cycle
C35_SendsNewerAndStoresNewest ==
    []SendsNewerOldestFirst /\ [][StoresNewestFetched]_vars

\* C35: in a pollRepo whose stored lastEventId is in the fetched newest-first
\* list, only the events strictly newer than it are sent, oldest first, and
\* afterwards the stored lastEventId is the id of the newest fetched event;
\* so no event is sent to a channel that was sent it by an earlier poll.
C35_NoEventSentTwice ==
    /\ []SendsNewerOldestFirst
    /\ [][StoresNewestFetched /\ NotSentBefore]_vars

====
